---- MODULE Spec2Model ----
(***************************************************************************)
(* A model of the JSON library of the repository (cJSON.c / cJSON.h): the  *)
(* value model on an explicit heap, the recursive-descent parser, the      *)
(* serializer, and the accessor/builder API.  Text is a sequence of byte   *)
(* codes, pointers are allocation numbers (NULL is 0), and a double is an  *)
(* exact decimal (sign, significant digits, decimal exponent).             *)
(***************************************************************************)
EXTENDS Integers, Sequences, FiniteSets, TLC

VARIABLES
    mem,            \* the caller's memory region holding the text (bytes)
    heap,           \* the allocator's blocks and the cJSON nodes in them
    root,           \* the tree the client holds (a node pointer, or NULL)
    typed,          \* how many bytes the client appended to the text
    res,            \* what the last library call returned and did
    global_error    \* the process-wide last-parse-error slot

vars == <<mem, typed, heap, root, res, global_error>>

(***************************************************************************)
(* Bytes.                                                                  *)
(***************************************************************************)
NULL == 0

ch == [nul |-> 0, soh |-> 1, bsp |-> 8, tab |-> 9, lf |-> 10, ff |-> 12,
       cr |-> 13, sp |-> 32, quote |-> 34, plus |-> 43, comma |-> 44,
       minus |-> 45, dot |-> 46, slash |-> 47, d0 |-> 48, d9 |-> 57,
       colon |-> 58, qmark |-> 63, A |-> 65, E |-> 69, Z |-> 90,
       lbrack |-> 91, bslash |-> 92, rbrack |-> 93, a |-> 97, b |-> 98,
       e |-> 101, f |-> 102, n |-> 110, r |-> 114, t |-> 116, u |-> 117,
       lbrace |-> 123, rbrace |-> 125]

\* The byte code of a one-character string (the characters the texts of
\* this model are written with).
Code(c) ==
    CASE c = "\"" -> 34 [] c = "\\" -> 92 [] c = " " -> 32 [] c = "\t" -> 9
      [] c = "," -> 44 [] c = ":" -> 58 [] c = "-" -> 45 [] c = "+" -> 43
      [] c = "." -> 46 [] c = "/" -> 47 [] c = "?" -> 63
      [] c = "[" -> 91 [] c = "]" -> 93 [] c = "{" -> 123 [] c = "}" -> 125
      [] c = "0" -> 48 [] c = "1" -> 49 [] c = "2" -> 50 [] c = "3" -> 51
      [] c = "4" -> 52 [] c = "5" -> 53 [] c = "6" -> 54 [] c = "7" -> 55
      [] c = "8" -> 56 [] c = "9" -> 57
      [] c = "A" -> 65 [] c = "B" -> 66 [] c = "E" -> 69
      [] c = "a" -> 97 [] c = "b" -> 98 [] c = "c" -> 99 [] c = "d" -> 100
      [] c = "e" -> 101 [] c = "f" -> 102 [] c = "g" -> 103 [] c = "h" -> 104
      [] c = "i" -> 105 [] c = "l" -> 108 [] c = "n" -> 110 [] c = "q" -> 113
      [] c = "r" -> 114 [] c = "s" -> 115 [] c = "t" -> 116 [] c = "u" -> 117
      [] c = "y" -> 121
      [] c = "<" -> 60 [] c = ">" -> 62 [] c = "!" -> 33
      [] c = "'" -> 39 [] c = "=" -> 61 [] c = "#" -> 35 [] c = ";" -> 59
      [] c = "(" -> 40 [] c = ")" -> 41 [] c = "_" -> 95
      [] c = "C" -> 67 [] c = "D" -> 68 [] c = "H" -> 72 [] c = "N" -> 78
      [] c = "O" -> 79 [] c = "P" -> 80 [] c = "T" -> 84 [] c = "W" -> 87
      [] c = "Y" -> 89
      [] c = "k" -> 107 [] c = "m" -> 109 [] c = "o" -> 111 [] c = "p" -> 112
      [] c = "v" -> 118 [] c = "w" -> 119 [] c = "x" -> 120 [] c = "z" -> 122

\* A C string literal as bytes, without its terminating NUL.
Bytes(s) == [i \in 1..Len(s) |-> Code(SubSeq(s, i, i))]

Max(x, y) == IF x >= y THEN x ELSE y
Min(x, y) == IF x <= y THEN x ELSE y

\* strlen: the number of bytes before the first NUL of s (Len(s) when s
\* holds none: the caller's region ends there).
RECURSIVE StrLenFrom(_, _)
StrLenFrom(s, i) ==
    IF i > Len(s) \/ s[i] = ch.nul THEN i - 1 ELSE StrLenFrom(s, i + 1)

strlen(s) == StrLenFrom(s, 1)

\* The C string stored at the start of s.
CStr(s) == SubSeq(s, 1, strlen(s))

IsDigit(c) == c >= ch.d0 /\ c <= ch.d9

\* tolower of the C locale.
tolower(c) == IF c >= ch.A /\ c <= ch.Z THEN c + (ch.a - ch.A) ELSE c

(***************************************************************************)
(* Doubles.  A finite double is the exact decimal                          *)
(*     (-1)^neg * d1.d2d3...dn * 10^exp                                    *)
(* with dig = <<d1,...,dn>>, d1 # 0 and dn # 0; zero has dig = <<>> and    *)
(* exp = 0, and its sign is dropped (C's == cannot tell -0.0 from 0.0 and  *)
(* neither printing branch shows it).  The texts of the model carry at     *)
(* most 15 significant digits, where the decimal and the double agree.     *)
(***************************************************************************)
Zero == [cls |-> "fin", neg |-> FALSE, dig |-> <<>>, exp |-> 0]
Inf(neg) == [cls |-> "inf", neg |-> neg, dig |-> <<>>, exp |-> 0]
NaN == [cls |-> "nan", neg |-> FALSE, dig |-> <<>>, exp |-> 0]

RECURSIVE StripLeft(_)
StripLeft(d) == IF d # <<>> /\ Head(d) = 0 THEN StripLeft(Tail(d)) ELSE d

RECURSIVE StripRight(_)
StripRight(d) ==
    IF d # <<>> /\ d[Len(d)] = 0 THEN StripRight(SubSeq(d, 1, Len(d) - 1))
    ELSE d

RECURSIVE LeadingZeros(_)
LeadingZeros(d) ==
    IF d # <<>> /\ Head(d) = 0 THEN 1 + LeadingZeros(Tail(d)) ELSE 0

\* Lexicographic d1 < d2 on digit sequences, the shorter padded with zeros.
RECURSIVE DigitsLess(_, _)
DigitsLess(d1, d2) ==
    IF d1 = <<>> /\ d2 = <<>> THEN FALSE
    ELSE LET x == IF d1 = <<>> THEN 0 ELSE Head(d1)
             y == IF d2 = <<>> THEN 0 ELSE Head(d2)
         IN  IF x # y THEN x < y
             ELSE DigitsLess(IF d1 = <<>> THEN d1 ELSE Tail(d1),
                             IF d2 = <<>> THEN d2 ELSE Tail(d2))

\* The digits of DBL_MAX plus half an ulp: a decimal at or above it
\* converts to infinity.
DblMaxDigits == <<1, 7, 9, 7, 6, 9, 3, 1, 3, 4, 8, 6, 2, 3, 1, 5, 8>>
DblMaxExp == 300 + 8
DblMinExp == 0 - 324

\* The double of the decimal with the digits `raw` (leading and trailing
\* zeros allowed) whose first digit has the weight 10^e.
MkDouble(neg, raw, e) ==
    LET lz == LeadingZeros(raw)
        d == StripRight(StripLeft(raw))
        x == e - lz
    IN  IF d = <<>> THEN Zero
        ELSE IF x > DblMaxExp \/ (x = DblMaxExp /\ ~DigitsLess(d, DblMaxDigits))
             THEN Inf(neg)
        ELSE IF x < DblMinExp THEN Zero
        ELSE [cls |-> "fin", neg |-> neg, dig |-> d, exp |-> x]

\* The double of an int (e.g. (double)item->valueint).
RECURSIVE NatDigits(_)
NatDigits(v) == IF v < 10 THEN <<v>> ELSE Append(NatDigits(v \div 10), v % 10)

\* The decimal digits of |v| for v < 0, computed without negating v (the
\* least int has no negation).
RECURSIVE NegDigits(_)
NegDigits(v) ==
    LET d == (10 - (v % 10)) % 10
        rest == (v + d) \div 10
    IN  IF rest = 0 THEN <<d>> ELSE Append(NegDigits(rest), d)

IntDigits(v) == IF v >= 0 THEN NatDigits(v) ELSE NegDigits(v)

DoubleOfInt(v) == MkDouble(v < 0, IntDigits(v), Len(IntDigits(v)) - 1)

IntMaxDigits == <<2, 1, 4, 7, 4, 8, 3, 6, 4, 7>>
IntMinDigits == <<2, 1, 4, 7, 4, 8, 3, 6, 4, 8>>

\* The digits of the integer part of a finite double (<<>> when it is 0).
IntPartDigits(d) ==
    IF d.dig = <<>> \/ d.exp < 0 THEN <<>>
    ELSE [i \in 1..(d.exp + 1) |-> IF i <= Len(d.dig) THEN d.dig[i] ELSE 0]

RECURSIVE SignedValue(_, _, _)
SignedValue(digs, neg, acc) ==
    IF digs = <<>> THEN acc
    ELSE SignedValue(Tail(digs), neg,
                     IF neg THEN acc * 10 - Head(digs) ELSE acc * 10 + Head(digs))

\* (int)d.  C leaves the conversion undefined when the truncated value does
\* not fit an int (and for NaN and the infinities): def is FALSE then and v
\* stands for whatever int the build produces.
IntOfDouble(d) ==
    LET ip == IF d.cls = "fin" THEN IntPartDigits(d) ELSE <<>>
        fits == /\ d.cls = "fin"
                /\ \/ Len(ip) < Len(IntMaxDigits)
                   \/ /\ Len(ip) = Len(IntMaxDigits)
                      /\ IF d.neg THEN ~DigitsLess(IntMinDigits, ip)
                                  ELSE ~DigitsLess(IntMaxDigits, ip)
    IN  IF fits THEN [def |-> TRUE, v |-> SignedValue(ip, d.neg, 0)]
        ELSE [def |-> FALSE, v |-> 0]

\* d == (double)valueint: no int equals a double outside the int range, so
\* the comparison is false whatever an undefined conversion produced.
EqualsIntView(d, vi) == vi.def /\ d = DoubleOfInt(vi.v)

(***************************************************************************)
(* strtod, as parse_number calls it, on the bytes of `content` from the    *)
(* 0-based index `start`: an optional sign, then a decimal mantissa with   *)
(* an optional exponent, or "inf"/"infinity"/"nan".  The hexadecimal form  *)
(* needs an 'x', which no text of this model holds.  The result names the  *)
(* value, the end of the conversion (`start` when there is none) and the   *)
(* last index strtod looked at.                                            *)
(***************************************************************************)
At(content, i) == IF i < Len(content) THEN content[i + 1] ELSE ch.nul

RECURSIVE DigitEnd(_, _)
DigitEnd(content, pos) ==
    IF pos < Len(content) /\ IsDigit(content[pos + 1])
    THEN DigitEnd(content, pos + 1) ELSE pos

DigitsOf(content, from, to) ==
    [i \in 1..(to - from) |-> content[from + i] - ch.d0]

RECURSIVE MatchLen(_, _, _, _)
MatchLen(content, pos, word, k) ==
    IF k < Len(word) /\ tolower(At(content, pos + k)) = word[k + 1]
    THEN MatchLen(content, pos, word, k + 1) ELSE k

\* The value of an exponent's digits; more than four digits saturate (the
\* result is an infinity or zero either way).
ExpValue(digs) ==
    LET d == StripLeft(digs)
    IN  IF Len(d) > 4 THEN 9999 ELSE SignedValue(d, FALSE, 0)

\* strtod with the mantissa found: its integer digits are [p1, e1) and it
\* ends at e2.  The exponent's digits are [q2, e3); mInf and mNan bytes at
\* p1 match "infinity" and "nan".
StrtodResult(content, start, p1, e1, e2) ==
    LET neg == At(content, start) = ch.minus
        ints == DigitsOf(content, p1, e1)
        fracs == IF e2 > e1 THEN DigitsOf(content, e1 + 1, e2) ELSE <<>>
        hasExp == At(content, e2) \in {ch.e, ch.E}
        eneg == At(content, e2 + 1) = ch.minus
        q2 == IF At(content, e2 + 1) \in {ch.minus, ch.plus} THEN e2 + 2 ELSE e2 + 1
        e3 == DigitEnd(content, q2)
        ev == ExpValue(DigitsOf(content, q2, e3))
        expo == IF hasExp /\ e3 > q2 THEN (IF eneg THEN 0 - ev ELSE ev) ELSE 0
        mInf == MatchLen(content, p1, Bytes("infinity"), 0)
        mNan == MatchLen(content, p1, Bytes("nan"), 0)
    IN  IF Len(ints) + Len(fracs) > 0
        THEN [val |-> MkDouble(neg, ints \o fracs, Len(ints) - 1 + expo),
              end |-> IF hasExp /\ e3 > q2 THEN e3 ELSE e2,
              last |-> IF hasExp THEN e3 ELSE e2]
        ELSE IF mInf >= 3
        THEN [val |-> Inf(neg),
              end |-> IF mInf = 8 THEN p1 + 8 ELSE p1 + 3,
              last |-> IF mInf = 8 THEN p1 + 7 ELSE p1 + mInf]
        ELSE IF mNan = 3
        THEN [val |-> NaN, end |-> p1 + 3, last |-> p1 + 3]
        ELSE [val |-> Zero, end |-> start, last |-> Max(e2, p1 + Max(mInf, mNan))]

strtod(content, start) ==
    LET p1 == IF At(content, start) \in {ch.minus, ch.plus}
              THEN start + 1 ELSE start
        e1 == DigitEnd(content, p1)
        e2 == IF At(content, e1) = ch.dot THEN DigitEnd(content, e1 + 1) ELSE e1
    IN  StrtodResult(content, start, p1, e1, e2)

(***************************************************************************)
(* sprintf, as print_number calls it: "%d" of an int and "%g" of a double. *)
(***************************************************************************)
DigitBytes(digs) == [i \in 1..Len(digs) |-> ch.d0 + digs[i]]

\* sprintf(output, "%d", v)
FormatD(v) == (IF v < 0 THEN <<ch.minus>> ELSE <<>>) \o DigitBytes(IntDigits(v))

\* digs plus one unit in its last place; a carry out of the first digit
\* gives one more digit.
RECURSIVE IncDigits(_)
IncDigits(digs) ==
    IF digs = <<>> THEN <<1>>
    ELSE IF digs[Len(digs)] < 9
         THEN [digs EXCEPT ![Len(digs)] = @ + 1]
         ELSE Append(IncDigits(SubSeq(digs, 1, Len(digs) - 1)), 0)

\* The precision of "%g".
GPrecision == 6

\* d rounded to GPrecision significant digits, ties to even: the digits and
\* the decimal exponent of the first one.
RoundG(d) ==
    IF Len(d.dig) <= GPrecision THEN [dig |-> d.dig, exp |-> d.exp]
    ELSE LET keep == SubSeq(d.dig, 1, GPrecision)
             next == d.dig[GPrecision + 1]
             up == \/ next > 5
                   \/ next = 5 /\ (Len(d.dig) > GPrecision + 1
                                   \/ keep[GPrecision] % 2 = 1)
             inc == IF up THEN IncDigits(keep) ELSE keep
         IN  IF Len(inc) > GPrecision
             THEN [dig |-> <<1>>, exp |-> d.exp + 1]
             ELSE [dig |-> StripRight(inc), exp |-> d.exp]

Zeros(k) == [i \in 1..k |-> ch.d0]

\* "%g" of d, g being d rounded to the precision
FormatRounded(d, g) ==
    LET x == g.exp
        digs == DigitBytes(g.dig)
        sign == IF d.neg THEN <<ch.minus>> ELSE <<>>
        ax == IF x < 0 THEN 0 - x ELSE x
        expDigits == IF ax < 10 THEN <<ch.d0, ch.d0 + ax>>
                     ELSE DigitBytes(NatDigits(ax))
    IN  IF d.dig = <<>> THEN <<ch.d0>>
        ELSE IF x < 0 - 4 \/ x >= GPrecision
        THEN sign \o <<digs[1]>>
             \o (IF Len(digs) > 1 THEN <<ch.dot>> \o Tail(digs) ELSE <<>>)
             \o <<ch.e, IF x < 0 THEN ch.minus ELSE ch.plus>> \o expDigits
        ELSE IF x >= 0
        THEN sign
             \o [i \in 1..(x + 1) |-> IF i <= Len(digs) THEN digs[i] ELSE ch.d0]
             \o (IF Len(digs) > x + 1
                 THEN <<ch.dot>> \o SubSeq(digs, x + 2, Len(digs)) ELSE <<>>)
        ELSE sign \o <<ch.d0, ch.dot>> \o Zeros(0 - x - 1) \o digs

\* sprintf(output, "%g", d) of a finite d
FormatG(d) == FormatRounded(d, RoundG(d))

(***************************************************************************)
(* The value model: node types, the heap and cJSON_Delete.                 *)
(***************************************************************************)
cJSON_Invalid == 0
cJSON_False == 1
cJSON_True == 2
cJSON_NULL == 4
cJSON_Number == 8
cJSON_String == 16
cJSON_Array == 32
cJSON_Object == 64
cJSON_Raw == 128
cJSON_IsReference == 256
cJSON_StringIsConst == 512

\* type & 0xFF
KindOf(type) == type % 256

\* type & flag, for a one-bit flag
HasFlag(type, flag) == (type \div flag) % 2 = 1

\* A cJSON struct after memset(node, 0, sizeof(cJSON)).
ZeroNode ==
    [next |-> NULL, prev |-> NULL, child |-> NULL, type |-> cJSON_Invalid,
     valuestring |-> NULL, valueint |-> [def |-> TRUE, v |-> 0],
     valuedouble |-> Zero, string |-> NULL]

\* The heap: every block malloc handed out has a number (its pointer);
\* `live` holds the blocks not yet freed, `node` the cJSON structs and `blk`
\* the byte strings stored in blocks, `via` the function a block came from
\* and `rel` the function it was released through ("" while it is not).
\* `malloc_fn` and `free_fn` are global_malloc and global_free.  Of the
\* requests to come, the allocator refuses the one numbered `failAt` (0:
\* none), and `bad` records a free of a block that is not live.
EmptyHeap(failAt) ==
    [node |-> <<>>, blk |-> <<>>, via |-> <<>>, rel |-> <<>>, live |-> {},
     cnt |-> 0, failAt |-> failAt, bad |-> FALSE,
     malloc_fn |-> "malloc", free_fn |-> "free"]

\* global_malloc(sz) (via = "hook") or the C library's malloc(sz) inside
\* strdup (via = "libc"): the new heap and the pointer (NULL when the
\* request is refused).
Malloc(H, via) ==
    LET id == H.cnt + 1
    IN  IF H.failAt = 1
        THEN [H |-> [H EXCEPT !.failAt = 0], p |-> NULL]
        ELSE [H |-> [H EXCEPT !.cnt = id, !.live = @ \cup {id},
                              !.failAt = IF @ = 0 THEN 0 ELSE @ - 1,
                              !.via = Append(@, IF via = "hook" THEN H.malloc_fn
                                                ELSE "malloc"),
                              !.rel = Append(@, ""),
                              !.node = Append(@, ZeroNode),
                              !.blk = Append(@, <<>>)],
              p |-> id]

\* A string literal of the client: a block that no allocator handed out.
Literal(H, bytes) ==
    LET id == H.cnt + 1
    IN  [H |-> [H EXCEPT !.cnt = id,
                         !.via = Append(@, "static"),
                         !.rel = Append(@, ""),
                         !.node = Append(@, ZeroNode),
                         !.blk = Append(@, Append(CStr(bytes), ch.nul))],
         p |-> id]

\* global_free(p)
Free(H, p) ==
    IF p \in H.live THEN [H EXCEPT !.live = @ \ {p}, !.rel[p] = H.free_fn]
    ELSE [H EXCEPT !.bad = TRUE]

\* A cJSON_Hooks record, its fields being function pointers or NULL
\* ("none"); NoHooks is the NULL argument of cJSON_InitHooks.
NoHooks == [null |-> TRUE, malloc_fn |-> "none", free_fn |-> "none"]
Hooks(m, f) == [null |-> FALSE, malloc_fn |-> m, free_fn |-> f]

\* An InitHooks that leaves a function as it is when the record does not
\* supply it.
InitHooksKeep(H, hooks) ==
    IF hooks.null THEN [H EXCEPT !.malloc_fn = "malloc", !.free_fn = "free"]
    ELSE [H EXCEPT !.malloc_fn = IF hooks.malloc_fn # "none"
                                 THEN hooks.malloc_fn ELSE @,
                   !.free_fn = IF hooks.free_fn # "none"
                               THEN hooks.free_fn ELSE @]

cJSON_InitHooks(H, hooks) ==
    IF hooks.null THEN [H EXCEPT !.malloc_fn = "malloc", !.free_fn = "free"]
    ELSE [H EXCEPT !.malloc_fn = IF hooks.malloc_fn # "none"
                                 THEN hooks.malloc_fn ELSE "malloc",
                   !.free_fn = IF hooks.free_fn # "none"
                               THEN hooks.free_fn ELSE "free"]

cJSON_New_Item(H) ==
    LET m == Malloc(H, "hook")
    IN  IF m.p = NULL THEN m
        ELSE [H |-> [m.H EXCEPT !.node[m.p] = ZeroNode], p |-> m.p]

\* A cJSON_Delete that looks at no flag.
RECURSIVE cJSON_DeleteAll(_, _)
cJSON_DeleteAll(H, item) ==
    IF item = NULL THEN H
    ELSE IF item \notin H.live THEN [H EXCEPT !.bad = TRUE]
    ELSE LET nd == H.node[item]
             H1 == IF nd.child # NULL THEN cJSON_DeleteAll(H, nd.child) ELSE H
             H2 == IF nd.valuestring # NULL THEN Free(H1, nd.valuestring) ELSE H1
             H3 == IF nd.string # NULL THEN Free(H2, nd.string) ELSE H2
         IN  cJSON_DeleteAll(Free(H3, item), nd.next)

\* cJSON_Delete(item): the sibling loop, with the recursion into the child.
\* Reaching a node that is no longer live is a use after free: `bad`.
RECURSIVE cJSON_Delete(_, _)
cJSON_Delete(H, item) ==
    IF item = NULL THEN H
    ELSE IF item \notin H.live THEN [H EXCEPT !.bad = TRUE]
    ELSE LET nd == H.node[item]
             H1 == IF ~HasFlag(nd.type, cJSON_IsReference) /\ nd.child # NULL
                   THEN cJSON_Delete(H, nd.child) ELSE H
             H2 == IF ~HasFlag(nd.type, cJSON_IsReference) /\ nd.valuestring # NULL
                   THEN Free(H1, nd.valuestring) ELSE H1
             H3 == IF ~HasFlag(nd.type, cJSON_StringIsConst) /\ nd.string # NULL
                   THEN Free(H2, nd.string) ELSE H2
         IN  cJSON_Delete(Free(H3, item), nd.next)

(***************************************************************************)
(* The last-parse-error slot holds NULL or the address of a message        *)
(* literal of cJSON.c.  A pointer has a segment: "null", "static" (a       *)
(* string literal, named by its text) or "text" (an offset into the        *)
(* caller's text).                                                         *)
(***************************************************************************)
NoError == [seg |-> "null", msg |-> "", off |-> 0]
Message(m) == [seg |-> "static", msg |-> m, off |-> 0]

\* A const char * argument: a pointer to bytes, or NULL.
TextPtr(bytes) == [null |-> FALSE, bytes |-> bytes]
NullText == [null |-> TRUE, bytes |-> <<>>]

\* A cJSON_GetErrorPtr that has no error to report.
GetErrorPtrNone(slot) == NoError

\* cJSON_GetErrorPtr()
cJSON_GetErrorPtr(slot) == slot

\* A parse call that leaves the slot as it finds it.
KeepError(slot) == slot

\* global_error = NULL on entry to cJSON_ParseWithLength
ResetError(slot) == NoError

\* The slot after a parse call that found it holding `slot` and whose
\* parse_buffer is b at the end: the last message the call stored, or
\* what the entry left there when it stored none.
SlotAfter(slot, b) == IF b.err # NoError THEN b.err ELSE ResetError(slot)

(***************************************************************************)
(* The parser.  A parse_buffer is the record b: the caller's region        *)
(* `content` (reads at or past its end hit unmapped memory: `segv`), the   *)
(* declared `length`, the cursor `offset`, and what the call has done so   *)
(* far: the heap H, the error slot err, the highest index read rd (-1:     *)
(* none), and ovf, a write past the end of an allocated block.  When segv  *)
(* or ovf is set the behaviour of the call is undefined from there on.     *)
(* past records that the second pass of parse_string did not stop at the   *)
(* closing quote its first pass had found.                                 *)
(***************************************************************************)
can_read(b, size) == b.offset + size <= b.length
can_access_at_index(b, index) == b.offset + index < b.length

\* A read of content[i] (0-based), recorded in b.
Rd(b, i) == [b EXCEPT !.rd = Max(@, i), !.segv = @ \/ i >= Len(b.content)]

\* *buffer_at_offset(buffer), the value read
Cur(b) == At(b.content, b.offset)

Faulted(b) == b.segv \/ b.ovf

\* A failure that leaves the slot pointing at the offending position of the
\* text.
FailAtOffset(b, m) ==
    [ok |-> FALSE, b |-> [b EXCEPT !.err = [seg |-> "text", msg |-> "", off |-> b.offset]]]

Fail(b, m) == [ok |-> FALSE, b |-> [b EXCEPT !.err = Message(m)]]
FailQuiet(b) == [ok |-> FALSE, b |-> b]
Okay(b) == [ok |-> TRUE, b |-> b]

\* The first index at or after off that skip_whitespace stops at.
RECURSIVE SkipEnd(_, _, _)
SkipEnd(content, length, off) ==
    IF off < length /\ At(content, off) <= ch.sp
    THEN SkipEnd(content, length, off + 1) ELSE off

skip_whitespace(b) ==
    LET e == SkipEnd(b.content, b.length, b.offset)
        b1 == IF b.offset < b.length THEN Rd(b, Min(e, b.length - 1)) ELSE b
    IN  [b1 EXCEPT !.offset = IF e >= b.length THEN b.length ELSE e]

\* The first pass of parse_string from pos: where it stops, the length it
\* counted and why it stopped ("quote", "nul", or "end": it ran off the
\* region).  The byte after a backslash is skipped unread.
RECURSIVE ScanString(_, _, _)
ScanString(content, pos, len) ==
    IF pos >= Len(content) THEN [pos |-> pos, len |-> len, stop |-> "end"]
    ELSE IF content[pos + 1] = ch.quote
         THEN [pos |-> pos, len |-> len, stop |-> "quote"]
    ELSE IF content[pos + 1] = ch.nul
         THEN [pos |-> pos, len |-> len, stop |-> "nul"]
    ELSE IF content[pos + 1] = ch.bslash
         THEN ScanString(content, pos + 2, len + 1)
    ELSE ScanString(content, pos + 1, len + 1)

\* The character an escape \c decodes to (the switch of parse_string).
Unescape(c) ==
    CASE c = ch.b -> ch.bsp
      [] c = ch.f -> ch.ff
      [] c = ch.n -> ch.lf
      [] c = ch.r -> ch.cr
      [] c = ch.t -> ch.tab
      [] c = ch.u -> ch.qmark
      [] OTHER -> c

\* How far an escape \c moves the input past c before the loop's input++.
\* No byte skipped after any escape.
EscapeSkipNone(c) == 0

EscapeSkip(c) == IF c = ch.u THEN 4 ELSE 0

\* The second pass of parse_string from pos into a block of len + 1 bytes:
\* the bytes written before the terminator, the highest index read, and
\* whether it read past the region (segv) or wrote past the block (ovf).
RECURSIVE CopyString(_, _, _, _, _)
CopyString(content, pos, out, len, last) ==
    IF pos >= Len(content)
    THEN [out |-> out, last |-> pos, segv |-> TRUE, ovf |-> FALSE]
    ELSE IF content[pos + 1] = ch.quote
    THEN [out |-> out, last |-> Max(last, pos), segv |-> FALSE,
          ovf |-> Len(out) > len]
    ELSE IF Len(out) > len
    THEN [out |-> out, last |-> Max(last, pos), segv |-> FALSE, ovf |-> TRUE]
    ELSE IF content[pos + 1] = ch.bslash
    THEN IF pos + 1 >= Len(content)
         THEN [out |-> out, last |-> pos + 1, segv |-> TRUE, ovf |-> FALSE]
         ELSE CopyString(content,
                         pos + 1 + EscapeSkip(content[pos + 2]) + 1,
                         Append(out, Unescape(content[pos + 2])),
                         len, Max(last, pos + 1))
    ELSE CopyString(content, pos + 1, Append(out, content[pos + 1]), len,
                    Max(last, pos))

\* parse_string after the first pass sc, b0 being the buffer at the opening
\* quote: the output block, then the second pass, the terminator, and the
\* item becomes a String.
ParseStringScanned(item, b0, sc) ==
    LET b1 == [Rd(b0, sc.pos) EXCEPT !.offset = sc.pos]
        m == Malloc(b0.H, "hook")
        cp == CopyString(b0.content, b0.offset + 1, <<>>, sc.len, 0)
    IN  IF sc.stop # "quote" THEN Fail(b1, "Unterminated string")
        ELSE IF m.p = NULL THEN FailQuiet([b1 EXCEPT !.H = m.H])
        ELSE Okay([Rd(b1, cp.last) EXCEPT
                     !.segv = @ \/ cp.segv, !.ovf = @ \/ cp.ovf,
                     !.past = @ \/ cp.segv \/ cp.last # sc.pos,
                     !.offset = sc.pos + 1,
                     !.H = [m.H EXCEPT !.blk[m.p] = Append(cp.out, ch.nul),
                                       !.node[item].type = cJSON_String,
                                       !.node[item].valuestring = m.p]])

parse_string(item, b) ==
    IF Cur(b) # ch.quote THEN Fail(Rd(b, b.offset), "Not a string")
    ELSE ParseStringScanned(item, Rd(b, b.offset),
                            ScanString(b.content, b.offset + 1, 0))

\* parse_number after strtod returned st
ParseNumberStore(item, b, st) ==
    IF st.end = b.offset THEN Fail(Rd(b, st.last), "Invalid number")
    ELSE Okay([Rd(b, st.last) EXCEPT
                 !.offset = st.end,
                 !.H.node[item].valuedouble = st.val,
                 !.H.node[item].valueint = IntOfDouble(st.val),
                 !.H.node[item].type = cJSON_Number])

parse_number(item, b) == ParseNumberStore(item, b, strtod(b.content, b.offset))

\* strncmp(buffer_at_offset(buffer), lit, Len(lit)) == 0, and the index of
\* the last byte it compared.
RECURSIVE LitMatch(_, _, _, _)
LitMatch(content, off, lit, k) ==
    IF k = Len(lit) THEN [eq |-> TRUE, last |-> off + k - 1]
    ELSE IF At(content, off + k) # lit[k + 1] \/ At(content, off + k) = ch.nul
         THEN [eq |-> FALSE, last |-> off + k]
    ELSE LitMatch(content, off, lit, k + 1)

\* can_read(buffer, n) && strncmp(..., lit, n) == 0, with the reads recorded
TryLiteral(b, lit) ==
    LET lm == LitMatch(b.content, b.offset, lit, 0)
    IN  IF can_read(b, Len(lit))
        THEN [eq |-> lm.eq, b |-> Rd(b, lm.last)]
        ELSE [eq |-> FALSE, b |-> b]

RECURSIVE parse_value(_, _)
RECURSIVE ArrayLoop(_, _, _, _)
RECURSIVE ObjectLoop(_, _, _, _)

\* A failure that leaves the items parsed so far allocated.
FailListKeep(r, head) == [ok |-> FALSE, b |-> r.b]

\* The `fail:` label of parse_array and parse_object.
FailList(r, head) ==
    [ok |-> FALSE,
     b |-> IF head # NULL THEN [r.b EXCEPT !.H = cJSON_Delete(@, head)] ELSE r.b]

\* The condition of the do-while of parse_array and parse_object:
\* can_access_at_index(buffer, 0) && *at == ',' && buffer->offset++
LoopAgain(b) ==
    LET more == can_access_at_index(b, 0) /\ Cur(b) = ch.comma
        b1 == IF can_access_at_index(b, 0) THEN Rd(b, b.offset) ELSE b
    IN  [again |-> more /\ b.offset # 0,
         b |-> IF more THEN [b1 EXCEPT !.offset = @ + 1] ELSE b1]

\* Links new_item after current (or makes it the head).
Link(H, head, current, new_item) ==
    IF head = NULL THEN H
    ELSE [H EXCEPT !.node[current].next = new_item,
                   !.node[new_item].prev = current]

\* The do-while of parse_array after parse_value(new_item) returned v: the
\* whitespace, the loop condition and, on leaving the loop, the check for
\* ']' and the item becoming an Array with the children from head.
ArrayValue(item, v, head, new_item) ==
    LET la == LoopAgain(skip_whitespace(v.b))
        b4 == Rd(la.b, la.b.offset)
    IN  IF ~v.ok THEN FailList(v, head)
        ELSE IF Faulted(v.b) THEN FailQuiet(v.b)
        ELSE IF la.again THEN ArrayLoop(item, la.b, head, new_item)
        ELSE IF Cur(la.b) # ch.rbrack
        THEN FailList(Fail(b4, "Expected ']'"), head)
        ELSE Okay([b4 EXCEPT !.offset = @ + 1,
                             !.H.node[item].type = cJSON_Array,
                             !.H.node[item].child = head])

\* One round of the do-while of parse_array, up to parse_value(new_item).
ArrayLoop(item, b, head, current) ==
    LET b1 == skip_whitespace(b)
        m == cJSON_New_Item(b1.H)
    IN  IF m.p = NULL THEN FailList(FailQuiet([b1 EXCEPT !.H = m.H]), head)
        ELSE ArrayValue(item,
                        parse_value(m.p, [b1 EXCEPT
                                            !.H = Link(m.H, head, current, m.p)]),
                        IF head = NULL THEN m.p ELSE head, m.p)

parse_array(item, b) ==
    LET b0 == Rd(b, b.offset)
        b1 == skip_whitespace([b0 EXCEPT !.offset = @ + 1])
        b2 == IF can_access_at_index(b1, 0) THEN Rd(b1, b1.offset) ELSE b1
    IN  IF Cur(b) # ch.lbrack THEN Fail(b0, "Not an array")
        ELSE IF can_access_at_index(b1, 0) /\ Cur(b1) = ch.rbrack
        THEN Okay([b2 EXCEPT !.offset = @ + 1,
                             !.H.node[item].type = cJSON_Array])
        ELSE ArrayLoop(item, b2, NULL, NULL)

\* The do-while of parse_object after parse_value(new_item) returned v; on
\* leaving the loop, the check for '}' and the item becoming an Object.
ObjectValue(item, v, head, new_item) ==
    LET la == LoopAgain(skip_whitespace(v.b))
        b7 == Rd(la.b, la.b.offset)
    IN  IF ~v.ok THEN FailList(v, head)
        ELSE IF Faulted(v.b) THEN FailQuiet(v.b)
        ELSE IF la.again THEN ObjectLoop(item, la.b, head, new_item)
        ELSE IF Cur(la.b) # ch.rbrace
        THEN FailList(Fail(b7, "Expected '}'"), head)
        ELSE Okay([b7 EXCEPT !.offset = @ + 1,
                             !.H.node[item].type = cJSON_Object,
                             !.H.node[item].child = head])

\* The do-while of parse_object after parse_string(new_item) returned k:
\* new_item->string = new_item->valuestring; valuestring = NULL;
\* type = cJSON_Invalid; then the check for ':' and parse_value(new_item).
ObjectKey(item, k, head, new_item) ==
    LET b3 == skip_whitespace(
                [k.b EXCEPT
                   !.H.node[new_item].string = k.b.H.node[new_item].valuestring,
                   !.H.node[new_item].valuestring = NULL,
                   !.H.node[new_item].type = cJSON_Invalid])
        b4 == Rd(b3, b3.offset)
    IN  IF ~k.ok THEN FailList(k, head)
        ELSE IF Faulted(k.b) THEN FailQuiet(k.b)
        ELSE IF Cur(b3) # ch.colon THEN FailList(Fail(b4, "Expected ':'"), head)
        ELSE ObjectValue(item,
                         parse_value(new_item,
                                     skip_whitespace([b4 EXCEPT !.offset = @ + 1])),
                         head, new_item)

\* One round of the do-while of parse_object, up to parse_string(new_item).
ObjectLoop(item, b, head, current) ==
    LET b1 == skip_whitespace(b)
        m == cJSON_New_Item(b1.H)
    IN  IF m.p = NULL THEN FailList(FailQuiet([b1 EXCEPT !.H = m.H]), head)
        ELSE ObjectKey(item,
                       parse_string(m.p, [b1 EXCEPT
                                            !.H = Link(m.H, head, current, m.p)]),
                       IF head = NULL THEN m.p ELSE head, m.p)

parse_object(item, b) ==
    LET b0 == Rd(b, b.offset)
        b1 == skip_whitespace([b0 EXCEPT !.offset = @ + 1])
        b2 == IF can_access_at_index(b1, 0) THEN Rd(b1, b1.offset) ELSE b1
    IN  IF Cur(b) # ch.lbrace THEN Fail(b0, "Not an object")
        ELSE IF can_access_at_index(b1, 0) /\ Cur(b1) = ch.rbrace
        THEN Okay([b2 EXCEPT !.offset = @ + 1,
                             !.H.node[item].type = cJSON_Object])
        ELSE ObjectLoop(item, b2, NULL, NULL)

\* parse_value after skip_whitespace left the buffer b1
ParseValueAt(item, b1) ==
    LET tn == TryLiteral(b1, Bytes("null"))
        tf == TryLiteral(tn.b, Bytes("false"))
        tt == TryLiteral(tf.b, Bytes("true"))
        b2 == Rd(tt.b, b1.offset)
        c == Cur(b1)
    IN  IF ~can_access_at_index(b1, 0) THEN Fail(b1, "Unexpected end")
        ELSE IF tn.eq
        THEN Okay([tn.b EXCEPT !.offset = @ + 4,
                               !.H.node[item].type = cJSON_NULL])
        ELSE IF tf.eq
        THEN Okay([tf.b EXCEPT !.offset = @ + 5,
                               !.H.node[item].type = cJSON_False])
        ELSE IF tt.eq
        THEN Okay([tt.b EXCEPT !.offset = @ + 4,
                               !.H.node[item].type = cJSON_True])
        ELSE IF c = ch.quote THEN parse_string(item, b2)
        ELSE IF c = ch.minus \/ IsDigit(c) THEN parse_number(item, b2)
        ELSE IF c = ch.lbrack THEN parse_array(item, b2)
        ELSE IF c = ch.lbrace THEN parse_object(item, b2)
        ELSE Fail(b2, "Invalid value")

parse_value(item, b) == ParseValueAt(item, skip_whitespace(b))

\* A parse that also fails when anything but whitespace follows the value.
ParseWithLengthStrict(item, v) ==
    IF ~v.ok \/ SkipEnd(v.b.content, v.b.length, v.b.offset) < v.b.length
    THEN [ret |-> NULL, b |-> [v.b EXCEPT !.H = cJSON_Delete(@, item)]]
    ELSE [ret |-> item, b |-> v.b]

\* cJSON_ParseWithLength after parse_value(item) returned v
ParseWithLengthValue(item, v) ==
    IF ~v.ok
    THEN [ret |-> NULL, b |-> [v.b EXCEPT !.H = cJSON_Delete(@, item)]]
    ELSE [ret |-> item, b |-> v.b]

\* cJSON_ParseWithLength(value, length) on the heap H: what the call
\* returns (ret), the heap and the error slot it leaves, and what it read.
\* `value` points to the caller's region (TextPtr) or is NullText.
cJSON_ParseWithLength(value, length, H) ==
    LET m == cJSON_New_Item(H)
        b == [content |-> value.bytes, length |-> length, offset |-> 0, H |-> H,
              err |-> NoError, rd |-> 0 - 1, segv |-> FALSE, ovf |-> FALSE,
              past |-> FALSE]
    IN  IF value.null \/ length = 0
        THEN [ret |-> NULL, b |-> [b EXCEPT !.err = Message("Null input")]]
        ELSE IF m.p = NULL
        THEN [ret |-> NULL,
              b |-> [b EXCEPT !.H = m.H, !.err = Message("Memory error")]]
        ELSE ParseWithLengthValue(m.p, parse_value(m.p, [b EXCEPT !.H = m.H]))

\* cJSON_Parse(value): the length is strlen(value).
cJSON_Parse(value, H) ==
    cJSON_ParseWithLength(value, IF value.null THEN 0 ELSE strlen(value.bytes), H)

(***************************************************************************)
(* Object/array access.                                                    *)
(***************************************************************************)
\* The loop of cJSON_GetArraySize from child, with the count so far.
RECURSIVE SizeFrom(_, _, _)
SizeFrom(H, child, size) ==
    IF child = NULL THEN size ELSE SizeFrom(H, H.node[child].next, size + 1)

cJSON_GetArraySize(H, array) ==
    IF array = NULL THEN 0 ELSE SizeFrom(H, H.node[array].child, 0)

\* The loop of cJSON_GetArrayItem counting from one instead of zero.
RECURSIVE ItemFromOne(_, _, _)
ItemFromOne(H, child, index) ==
    IF child # NULL /\ index > 1
    THEN ItemFromOne(H, H.node[child].next, index - 1) ELSE child

\* The loop of cJSON_GetArrayItem: while (child && index > 0)
RECURSIVE ItemFrom(_, _, _)
ItemFrom(H, child, index) ==
    IF child # NULL /\ index > 0
    THEN ItemFrom(H, H.node[child].next, index - 1) ELSE child

cJSON_GetArrayItem(H, array, index) ==
    IF array = NULL \/ index < 0 THEN NULL
    ELSE ItemFrom(H, H.node[array].child, index)

\* strcmp(s1, s2) == 0 on C strings
strcmp_eq(s1, s2) == CStr(s1) = CStr(s2)

\* strcasecmp(s1, s2) == 0 on C strings
strcasecmp_eq(s1, s2) ==
    /\ strlen(s1) = strlen(s2)
    /\ \A i \in 1..strlen(s1) : tolower(s1[i]) = tolower(s2[i])

\* A lookup loop that keeps the last member that matches, not the first.
RECURSIVE FindFromLast(_, _, _)
FindFromLast(H, child, string) ==
    IF child = NULL THEN NULL
    ELSE LET later == FindFromLast(H, H.node[child].next, string)
         IN  IF later # NULL THEN later
             ELSE IF H.node[child].string # NULL
                     /\ strcasecmp_eq(H.blk[H.node[child].string], string.bytes)
                  THEN child
             ELSE NULL

\* The loop of cJSON_GetObjectItem from child.
RECURSIVE FindFrom(_, _, _)
FindFrom(H, child, string) ==
    IF child = NULL THEN NULL
    ELSE IF H.node[child].string # NULL
            /\ strcasecmp_eq(H.blk[H.node[child].string], string.bytes)
         THEN child
    ELSE FindFrom(H, H.node[child].next, string)

cJSON_GetObjectItem(H, object, string) ==
    IF object = NULL \/ string.null THEN NULL
    ELSE FindFrom(H, H.node[object].child, string)

\* The loop of cJSON_GetObjectItemCaseSensitive from child.
RECURSIVE FindExactFrom(_, _, _)
FindExactFrom(H, child, string) ==
    IF child = NULL THEN NULL
    ELSE IF H.node[child].string # NULL
            /\ strcmp_eq(H.blk[H.node[child].string], string.bytes)
         THEN child
    ELSE FindExactFrom(H, H.node[child].next, string)

cJSON_GetObjectItemCaseSensitive(H, object, string) ==
    IF object = NULL \/ string.null THEN NULL
    ELSE FindExactFrom(H, H.node[object].child, string)

(***************************************************************************)
(* Creating items and adding them to arrays and objects.  strdup takes its *)
(* block from the C library's malloc, not from the hooks.                  *)
(***************************************************************************)
\* strdup(bytes): a new block holding the C string, or NULL.
strdup(H, bytes) ==
    LET m == Malloc(H, "libc")
    IN  IF m.p = NULL THEN m
        ELSE [H |-> [m.H EXCEPT !.blk[m.p] = Append(CStr(bytes), ch.nul)],
              p |-> m.p]

\* cJSON_CreateNull, cJSON_CreateTrue, cJSON_CreateFalse, cJSON_CreateArray,
\* cJSON_CreateObject: a new item with the type set.
CreateOfType(H, type) ==
    LET m == cJSON_New_Item(H)
    IN  IF m.p = NULL THEN m
        ELSE [H |-> [m.H EXCEPT !.node[m.p].type = type], p |-> m.p]

cJSON_CreateNull(H) == CreateOfType(H, cJSON_NULL)
cJSON_CreateTrue(H) == CreateOfType(H, cJSON_True)
cJSON_CreateFalse(H) == CreateOfType(H, cJSON_False)
cJSON_CreateBool(H, boolean) ==
    CreateOfType(H, IF boolean THEN cJSON_True ELSE cJSON_False)
cJSON_CreateArray(H) == CreateOfType(H, cJSON_Array)
cJSON_CreateObject(H) == CreateOfType(H, cJSON_Object)

cJSON_CreateNumber(H, num) ==
    LET m == cJSON_New_Item(H)
    IN  IF m.p = NULL THEN m
        ELSE [H |-> [m.H EXCEPT !.node[m.p].type = cJSON_Number,
                                !.node[m.p].valuedouble = num,
                                !.node[m.p].valueint = IntOfDouble(num)],
              p |-> m.p]

\* cJSON_CreateString and cJSON_CreateRaw after the item m was made and
\* given its type: the copy of the text; only cJSON_CreateString checks it.
CreateWithText(m, text, checked) ==
    LET d == strdup(m.H, text.bytes)
    IN  IF m.p = NULL \/ text.null THEN m
        ELSE IF checked /\ d.p = NULL
        THEN [H |-> cJSON_Delete(d.H, m.p), p |-> NULL]
        ELSE [H |-> [d.H EXCEPT !.node[m.p].valuestring = d.p], p |-> m.p]

cJSON_CreateString(H, string) ==
    CreateWithText(CreateOfType(H, cJSON_String), string, TRUE)

cJSON_CreateRaw(H, raw) == CreateWithText(CreateOfType(H, cJSON_Raw), raw, FALSE)

\* while (child->next) child = child->next;
RECURSIVE LastSibling(_, _)
LastSibling(H, child) ==
    IF H.node[child].next = NULL THEN child
    ELSE LastSibling(H, H.node[child].next)

\* add_item_to_array with the new item put in front of the children.
add_item_to_array_front(H, array, item) ==
    IF array = NULL \/ item = NULL THEN [ok |-> FALSE, H |-> H]
    ELSE [ok |-> TRUE,
          H |-> [H EXCEPT !.node[array].child = item,
                          !.node[item].next = H.node[array].child]]

add_item_to_array(H, array, item) ==
    IF array = NULL \/ item = NULL THEN [ok |-> FALSE, H |-> H]
    ELSE IF H.node[array].child = NULL
    THEN [ok |-> TRUE, H |-> [H EXCEPT !.node[array].child = item]]
    ELSE LET last == LastSibling(H, H.node[array].child)
         IN  [ok |-> TRUE,
              H |-> [H EXCEPT !.node[last].next = item,
                              !.node[item].prev = last]]

cJSON_AddItemToArray(H, array, item) == add_item_to_array(H, array, item)

\* add_item_to_object: the key is the caller's string itself when
\* constant_key is set (a literal of the client), and a copy otherwise.
add_item_to_object(H, object, string, item, constant_key) ==
    LET d == IF constant_key THEN Literal(H, string.bytes)
             ELSE strdup(H, string.bytes)
    IN  IF object = NULL \/ string.null \/ item = NULL
        THEN [ok |-> FALSE, H |-> H]
        ELSE IF constant_key
        THEN add_item_to_array(
                 [d.H EXCEPT !.node[item].string = d.p,
                             !.node[item].type =
                                 IF HasFlag(@, cJSON_StringIsConst) THEN @
                                 ELSE @ + cJSON_StringIsConst],
                 object, item)
        ELSE IF d.p = NULL
        THEN [ok |-> FALSE, H |-> [d.H EXCEPT !.node[item].string = NULL]]
        ELSE add_item_to_array([d.H EXCEPT !.node[item].string = d.p],
                               object, item)

cJSON_AddItemToObject(H, object, string, item) ==
    add_item_to_object(H, object, string, item, FALSE)

cJSON_AddItemToObjectCS(H, object, string, item) ==
    add_item_to_object(H, object, string, item, TRUE)

\* A helper that returns NULL on a failed attach and keeps the item.
AttachCreatedKeep(m, object, name) ==
    LET a == cJSON_AddItemToObject(m.H, object, name, m.p)
    IN  IF a.ok THEN [ret |-> m.p, H |-> a.H] ELSE [ret |-> NULL, H |-> a.H]

\* The body the cJSON_Add*ToObject helpers share, m being what the
\* constructor answered: attach, and on failure delete the item.
AttachCreated(m, object, name) ==
    LET a == cJSON_AddItemToObject(m.H, object, name, m.p)
    IN  IF a.ok THEN [ret |-> m.p, H |-> a.H]
        ELSE [ret |-> NULL, H |-> cJSON_Delete(a.H, m.p)]

cJSON_AddNullToObject(H, object, name) ==
    AttachCreated(cJSON_CreateNull(H), object, name)
cJSON_AddTrueToObject(H, object, name) ==
    AttachCreated(cJSON_CreateTrue(H), object, name)
cJSON_AddFalseToObject(H, object, name) ==
    AttachCreated(cJSON_CreateFalse(H), object, name)
cJSON_AddBoolToObject(H, object, name, boolean) ==
    AttachCreated(cJSON_CreateBool(H, boolean), object, name)
cJSON_AddNumberToObject(H, object, name, number) ==
    AttachCreated(cJSON_CreateNumber(H, number), object, name)
cJSON_AddStringToObject(H, object, name, string) ==
    AttachCreated(cJSON_CreateString(H, string), object, name)
cJSON_AddRawToObject(H, object, name, raw) ==
    AttachCreated(cJSON_CreateRaw(H, raw), object, name)
cJSON_AddObjectToObject(H, object, name) ==
    AttachCreated(cJSON_CreateObject(H), object, name)
cJSON_AddArrayToObject(H, object, name) ==
    AttachCreated(cJSON_CreateArray(H), object, name)

\* The kind predicates.
cJSON_IsInvalid(H, item) ==
    item = NULL \/ KindOf(H.node[item].type) = cJSON_Invalid
cJSON_IsFalse(H, item) ==
    item # NULL /\ KindOf(H.node[item].type) = cJSON_False
cJSON_IsTrue(H, item) ==
    item # NULL /\ KindOf(H.node[item].type) = cJSON_True
cJSON_IsBool(H, item) ==
    item # NULL /\ (\/ KindOf(H.node[item].type) = cJSON_True
                    \/ KindOf(H.node[item].type) = cJSON_False)
cJSON_IsNull(H, item) ==
    item # NULL /\ KindOf(H.node[item].type) = cJSON_NULL
cJSON_IsNumber(H, item) ==
    item # NULL /\ KindOf(H.node[item].type) = cJSON_Number
cJSON_IsString(H, item) ==
    item # NULL /\ KindOf(H.node[item].type) = cJSON_String
cJSON_IsArray(H, item) ==
    item # NULL /\ KindOf(H.node[item].type) = cJSON_Array
cJSON_IsObject(H, item) ==
    item # NULL /\ KindOf(H.node[item].type) = cJSON_Object
cJSON_IsRaw(H, item) ==
    item # NULL /\ KindOf(H.node[item].type) = cJSON_Raw

(***************************************************************************)
(* The serializer.  A printbuffer is the record p: the block `buffer`, its *)
(* capacity `length`, the cursor `offset`, the bytes written so far        *)
(* (`data`, from index 0), the heap H, and ovf, a write at or past         *)
(* `length`.  Two more fields record what happened on the way: edge, a     *)
(* write that left offset at or past `length`, and grown, one entry per    *)
(* replacement of the buffer by ensure_buffer (the capacity before and     *)
(* after, the cursor, the size asked for with the cursor and terminator    *)
(* added, and whether the bytes below the cursor are the same after it).   *)
(***************************************************************************)
\* A write of `bytes` at p.offset, after which the cursor moves by adv.
Put(p, bytes, adv) ==
    [p EXCEPT !.data = SubSeq(@, 1, Min(Len(@), p.offset)) \o bytes,
              !.ovf = @ \/ p.offset + Len(bytes) > p.length,
              !.edge = @ \/ p.offset + adv >= p.length,
              !.offset = @ + adv]

\* The entry of p.grown for a replacement of p's buffer by one of new_size
\* bytes that holds `data`.
Growth(p, n, new_size, data) ==
    [was |-> p.length, now |-> new_size, off |-> p.offset, need |-> n,
     kept |-> \A i \in 1..p.offset :
                 i <= Len(data) /\ i <= Len(p.data) /\ data[i] = p.data[i]]

\* An ensure_buffer that doubles the capacity it has.
ensure_buffer_doubling(p, needed) ==
    LET n == needed + p.offset + 1
        m == Malloc(p.H, "hook")
    IN  IF p.buffer = NULL THEN [ok |-> FALSE, p |-> p]
        ELSE IF n <= p.length THEN [ok |-> TRUE, p |-> p]
        ELSE IF m.p = NULL THEN [ok |-> FALSE, p |-> [p EXCEPT !.H = m.H]]
        ELSE [ok |-> TRUE,
              p |-> [p EXCEPT !.H = Free(m.H, p.buffer),
                              !.data = SubSeq(@, 1, Min(Len(@), p.offset)),
                              !.buffer = m.p,
                              !.length = p.length * 2,
                              !.grown = Append(@, Growth(p, n, p.length * 2,
                                  SubSeq(p.data, 1, Min(Len(p.data), p.offset))))]]

ensure_buffer(p, needed) ==
    LET n == needed + p.offset + 1
        m == Malloc(p.H, "hook")
    IN  IF p.buffer = NULL THEN [ok |-> FALSE, p |-> p]
        ELSE IF n <= p.length THEN [ok |-> TRUE, p |-> p]
        ELSE IF m.p = NULL THEN [ok |-> FALSE, p |-> [p EXCEPT !.H = m.H]]
        ELSE [ok |-> TRUE,
              p |-> [p EXCEPT !.H = Free(m.H, p.buffer),
                              !.data = SubSeq(@, 1, Min(Len(@), p.offset)),
                              !.buffer = m.p,
                              !.length = n * 2,
                              !.grown = Append(@, Growth(p, n, n * 2,
                                  SubSeq(p.data, 1, Min(Len(p.data), p.offset))))]]

\* The hexadecimal digit of sprintf's %x.
HexDigit(v) == IF v < 10 THEN ch.d0 + v ELSE ch.a + (v - 10)

\* A print_string_ptr that copies every byte as it is.
EscapeNone(c) == <<c>>

\* What print_string_ptr writes for the byte c.
EscapeByte(c) ==
    IF c = ch.quote THEN <<ch.bslash, ch.quote>>
    ELSE IF c = ch.bslash THEN <<ch.bslash, ch.bslash>>
    ELSE IF c = ch.bsp THEN <<ch.bslash, ch.b>>
    ELSE IF c = ch.ff THEN <<ch.bslash, ch.f>>
    ELSE IF c = ch.lf THEN <<ch.bslash, ch.n>>
    ELSE IF c = ch.cr THEN <<ch.bslash, ch.r>>
    ELSE IF c = ch.tab THEN <<ch.bslash, ch.t>>
    ELSE IF c < ch.sp
    THEN <<ch.bslash, ch.u, ch.d0, ch.d0, HexDigit(c \div 16), HexDigit(c % 16)>>
    ELSE <<c>>

RECURSIVE EscapeAll(_)
EscapeAll(str) ==
    IF str = <<>> THEN <<>> ELSE EscapeByte(Head(str)) \o EscapeAll(Tail(str))

\* ensure_buffer(buffer, room), then the bytes written and the cursor moved
PrintBytes(p, room, bytes, adv) ==
    LET e == ensure_buffer(p, room)
    IN  IF ~e.ok THEN e ELSE [ok |-> TRUE, p |-> Put(e.p, bytes, adv)]

\* A text and its terminator written, the cursor left on the terminator.
PrintText(p, room, text) == PrintBytes(p, room, Append(text, ch.nul), Len(text))

\* A print_string_ptr that asks for room for the bytes of str as they are.
print_string_unescaped(str, p) ==
    LET s == IF str = NULL THEN <<>> ELSE CStr(p.H.blk[str])
    IN  PrintText(p, Len(s) + 3, <<ch.quote>> \o EscapeAll(s) \o <<ch.quote>>)

\* print_string_ptr(str, buffer); str is a block pointer or NULL ("")
print_string_ptr(str, p) ==
    LET s == IF str = NULL THEN <<>> ELSE CStr(p.H.blk[str])
    IN  PrintText(p, Len(s) * 6 + 3, <<ch.quote>> \o EscapeAll(s) \o <<ch.quote>>)

print_number(item, p) ==
    LET d == p.H.node[item].valuedouble
        vi == p.H.node[item].valueint
    IN  PrintText(p, 64, IF d.cls # "fin" THEN Bytes("null")
                         ELSE IF EqualsIntView(d, vi) THEN FormatD(vi.v)
                         ELSE FormatG(d))

RECURSIVE print_value(_, _)
RECURSIVE PrintArrayLoop(_, _)
RECURSIVE PrintObjectLoop(_, _)

\* print_array and print_object after their loop answered l: the closing
\* bracket c and the terminator.
PrintAfterLoop(l, c) ==
    LET e == ensure_buffer(l.p, 1)
    IN  IF ~l.ok THEN l
        ELSE IF ~e.ok THEN e
        ELSE [ok |-> TRUE, p |-> Put(Put(e.p, <<c>>, 1), <<ch.nul>>, 0)]

\* The loop of print_array and print_object after print_value(child)
\* answered v: child = child->next and the comma before the next child.
PrintComma(next, v) ==
    IF ~v.ok \/ next = NULL THEN v ELSE PrintBytes(v.p, 1, <<ch.comma>>, 1)

\* The loop of print_array after the comma was written
PrintArrayNext(next, c) ==
    IF ~c.ok \/ next = NULL THEN c ELSE PrintArrayLoop(next, c.p)

\* The while loop of print_array from child.
PrintArrayLoop(child, p) ==
    IF child = NULL THEN [ok |-> TRUE, p |-> p]
    ELSE PrintArrayNext(p.H.node[child].next,
                        PrintComma(p.H.node[child].next, print_value(child, p)))

print_array(item, p) ==
    LET o == PrintBytes(p, 1, <<ch.lbrack>>, 1)
    IN  IF ~o.ok THEN o
        ELSE PrintAfterLoop(PrintArrayLoop(p.H.node[item].child, o.p), ch.rbrack)

\* The loop of print_object after the comma was written
PrintObjectNext(next, c) ==
    IF ~c.ok \/ next = NULL THEN c ELSE PrintObjectLoop(next, c.p)

\* The while loop of print_object from child.
PrintObjectLoop(child, p) ==
    LET k == print_string_ptr(p.H.node[child].string, p)
        s == PrintBytes(k.p, 1, <<ch.colon>>, 1)
    IN  IF child = NULL THEN [ok |-> TRUE, p |-> p]
        ELSE IF ~k.ok THEN k
        ELSE IF ~s.ok THEN s
        ELSE PrintObjectNext(p.H.node[child].next,
                             PrintComma(p.H.node[child].next,
                                        print_value(child, s.p)))

print_object(item, p) ==
    LET o == PrintBytes(p, 1, <<ch.lbrace>>, 1)
    IN  IF ~o.ok THEN o
        ELSE PrintAfterLoop(PrintObjectLoop(p.H.node[item].child, o.p), ch.rbrace)

print_value(item, p) ==
    LET k == KindOf(p.H.node[item].type)
    IN  IF item = NULL THEN [ok |-> FALSE, p |-> p]
        ELSE IF k = cJSON_NULL THEN PrintText(p, 5, Bytes("null"))
        ELSE IF k = cJSON_False THEN PrintText(p, 6, Bytes("false"))
        ELSE IF k = cJSON_True THEN PrintText(p, 5, Bytes("true"))
        ELSE IF k = cJSON_Number THEN print_number(item, p)
        ELSE IF k = cJSON_Raw \/ k = cJSON_String
        THEN print_string_ptr(p.H.node[item].valuestring, p)
        ELSE IF k = cJSON_Array THEN print_array(item, p)
        ELSE IF k = cJSON_Object THEN print_object(item, p)
        ELSE [ok |-> FALSE, p |-> p]

\* The capacity cJSON_PrintUnformatted starts with.
PrintBufferSize == 256

\* A cJSON_PrintUnformatted that keeps its buffer when print_value fails.
PrintUnformattedLeak(v) ==
    IF ~v.ok
    THEN [ret |-> NULL, H |-> v.p.H, p |-> v.p]
    ELSE [ret |-> v.p.buffer,
          H |-> [v.p.H EXCEPT !.blk[v.p.buffer] = v.p.data],
          p |-> v.p]

\* cJSON_PrintUnformatted after print_value answered v
PrintUnformattedValue(v) ==
    IF ~v.ok
    THEN [ret |-> NULL, H |-> Free(v.p.H, v.p.buffer), p |-> v.p]
    ELSE [ret |-> v.p.buffer,
          H |-> [v.p.H EXCEPT !.blk[v.p.buffer] = v.p.data],
          p |-> v.p]

\* cJSON_PrintUnformatted(item): the block returned (NULL on failure), the
\* heap after the call (the block holds the text), and the printbuffer as
\* the call left it.
cJSON_PrintUnformatted(H, item) ==
    LET m == Malloc(H, "hook")
        p == [buffer |-> m.p, length |-> PrintBufferSize, offset |-> 0,
              data |-> <<>>, H |-> m.H, ovf |-> FALSE, edge |-> FALSE,
              grown |-> <<>>]
    IN  IF m.p = NULL THEN [ret |-> NULL, H |-> m.H, p |-> p]
        ELSE PrintUnformattedValue(print_value(item, p))

\* cJSON_Duplicate after cJSON_Parse(printed) answered ps
DuplicateParsed(printed, ps) ==
    [ret |-> ps.ret, H |-> Free(ps.b.H, printed), parsed |-> TRUE, b |-> ps.b]

\* cJSON_Duplicate after cJSON_PrintUnformatted answered pr
DuplicatePrinted(pr) ==
    IF pr.ret = NULL THEN [ret |-> NULL, H |-> pr.H, parsed |-> FALSE]
    ELSE DuplicateParsed(pr.ret, cJSON_Parse(TextPtr(pr.H.blk[pr.ret]), pr.H))

\* cJSON_Duplicate(item, recurse): print, parse the text, free the text.
\* The parse resets the error slot, so the call also yields the slot.
cJSON_Duplicate(H, item) ==
    IF item = NULL THEN [ret |-> NULL, H |-> H, parsed |-> FALSE]
    ELSE DuplicatePrinted(cJSON_PrintUnformatted(H, item))

(***************************************************************************)
(* The tree a node pointer stands for: at every node the kind, the key and *)
(* the value string (as C strings), the number, and the children in        *)
(* sibling order.                                                          *)
(***************************************************************************)
StrOf(H, p) == IF p = NULL THEN NullText ELSE TextPtr(CStr(H.blk[p]))

RECURSIVE TreeOf(_, _)
RECURSIVE ListOf(_, _)
TreeOf(H, p) ==
    LET nd == H.node[p]
    IN  [kind |-> KindOf(nd.type),
         key |-> StrOf(H, nd.string),
         str |-> StrOf(H, nd.valuestring),
         num |-> IF KindOf(nd.type) = cJSON_Number THEN nd.valuedouble ELSE Zero,
         kids |-> ListOf(H, nd.child)]

ListOf(H, p) ==
    IF p = NULL THEN <<>> ELSE <<TreeOf(H, p)>> \o ListOf(H, H.node[p].next)

(***************************************************************************)
(* The client of the parser.  It puts a text into its memory (one of the   *)
(* sample texts, then bytes of its own), calls cJSON_Parse or              *)
(* cJSON_ParseWithLength on it, and on success prints the tree,            *)
(* duplicates it and prints the duplicate.                                 *)
(***************************************************************************)
\* The bytes the client appends to a text.
MaxTyped == 1

\* The allocation requests of a parse call among which one may be refused.
MaxFail == 8

\* The keys and indexes the client looks up.
MaxIndex == 3

\* The allocation requests of a print call among which one may be refused.
MaxPrintFail == 2

TypedBytes ==
    {ch.nul, ch.soh, ch.quote, ch.bslash, ch.comma, ch.d0 + 1, ch.rbrack,
     ch.rbrace, ch.a, ch.u}

Samples ==
    { <<>>,
      Bytes("{\"a\":}"), Bytes("[1,2,"), Bytes("[1,2"), Bytes("[1,]"),
      Bytes("{\"a\" 1}"), Bytes("{\"a\":1,}"), Bytes("{\"a\":1"),
      Bytes("\"ab"), Bytes("\"a\\"), Bytes("nul"), Bytes("-"),
      Bytes("\"a\\") \o <<ch.nul, ch.quote>>,
      Bytes("null"), Bytes("true"), Bytes("false"),
      Bytes("12"), Bytes("-3.5"), Bytes("1234567.5"), Bytes("2147483648"),
      Bytes("1e999"), Bytes("0.00001"),
      Bytes("\"\\u0041\""), Bytes("\"a\\u0041b\\n\""), Bytes("\"\\u12\""),
      Bytes("\"a\\/\\\"b\\\\\""), <<ch.quote, ch.soh, ch.tab, ch.quote>>,
      Bytes("{\"a\":1,\"a\":2}"), Bytes("{\"a\":1,\"A\":2}"),
      Bytes("[[1,\"a\"],{\"b\":[]}]"), Bytes(" [ 1 , \"a\" ] "),
      Bytes("{\"a\":[true,{\"b\":\"\\t\"}]") }

Keys == {NullText, TextPtr(Bytes("a")), TextPtr(Bytes("A")), TextPtr(Bytes("b"))}

\* The threads of a client that parses from two threads, and what a
\* thread knows of its call before it makes it: where it is (pc), the
\* text, what the call returned, the message the call stored (err), what
\* cJSON_GetErrorPtr() answered (got), and whether the other thread stored
\* to the slot after this thread's last store and before its read.
Threads == {1, 2}

\* The file agent's part of the record: the version of the agent (ver), the
\* stored messages g_conv.messages[0 .. count-1] (conv), and every message
\* added since the history was last cleared (added).

NoCall ==
    [pc |-> "idle", text |-> NullText, ret |-> NULL, err |-> NoError,
     got |-> NoError, foreign |-> FALSE]

\* The file agent's process: the bytes waiting on its standard input, the
\* files of the sandbox (name and data), and what its last command did:
\* the command, the report, whether it asked for confirmation, what the
\* prompt read (answer) and whether that read began in the middle of an
\* input line (cut), and the names it handed to fopen and remove (access).
NoCommand == [action |-> "", path |-> <<>>, content |-> <<>>]
NoAnswer == [eof |-> TRUE, text |-> <<>>, rest |-> <<>>]

NoAgent ==
    [stdin |-> <<>>, midline |-> FALSE, fs |-> {}, cmd |-> NoCommand,
     report |-> "", prompted |-> FALSE, answer |-> NoAnswer, cut |-> FALSE,
     access |-> <<>>]

Idle ==
    [call |-> "none", ret |-> NULL, length |-> 0, rd |-> 0 - 1,
     segv |-> FALSE, ovf |-> FALSE, reqs |-> 0, refused |-> FALSE,
     out |-> <<>>, dup |-> NULL, out2 |-> <<>>,
     key |-> NullText, exact |-> NULL, index |-> 0,
     arg |-> NULL, got |-> NULL, text |-> NullText, num |-> Zero,
     inits |-> 0, hooks |-> NoHooks, preds |-> <<>>, povf |-> FALSE,
     edge |-> FALSE, grown |-> <<>>, before |-> NoError, round |-> 0,
     thr |-> [t \in Threads |-> NoCall], writer |-> 0, past |-> FALSE,
     ver |-> "v5", conv |-> <<>>, added |-> <<>>, ag |-> NoAgent]

InitParse ==
    /\ mem = <<>>
    /\ typed = 0
    /\ heap = EmptyHeap(0)
    /\ root = NULL
    /\ res = Idle
    /\ global_error = NoError

\* The client copies a sample text into its memory.
LoadSample ==
    /\ res.call = "none" /\ mem = <<>> /\ typed = 0
    /\ \E s \in Samples \ {<<>>} : mem' = s
    /\ UNCHANGED <<typed, heap, root, res, global_error>>

\* The client appends a byte to the text.
Type ==
    /\ res.call = "none" /\ typed < MaxTyped
    /\ \E c \in TypedBytes : mem' = Append(mem, c)
    /\ typed' = typed + 1
    /\ UNCHANGED <<heap, root, res, global_error>>

\* The state after a parse call that returned r.
AfterParse(call, r, failAt) ==
    /\ heap' = [r.b.H EXCEPT !.failAt = 0]
    /\ root' = r.ret
    /\ global_error' = SlotAfter(global_error, r.b)
    /\ res' = [Idle EXCEPT !.call = call, !.ret = r.ret,
                           !.before = global_error, !.round = res.round,
                           !.length = r.b.length, !.rd = r.b.rd,
                           !.segv = r.b.segv, !.ovf = r.b.ovf,
                           !.past = r.b.past,
                           !.reqs = r.b.H.cnt - heap.cnt,
                           !.refused = (failAt # 0 /\ r.b.H.failAt = 0)]
    /\ UNCHANGED <<mem, typed>>

\* cJSON_Parse(text), the text being the C string in the client's memory
\* (a NUL follows what the client put there).
Parse ==
    /\ res.call = "none"
    /\ \E failAt \in 0..MaxFail :
          AfterParse("Parse",
                     cJSON_Parse(TextPtr(Append(mem, ch.nul)),
                                 [heap EXCEPT !.failAt = failAt]),
                     failAt)

\* cJSON_Parse(NULL)
ParseNull ==
    /\ res.call = "none" /\ mem = <<>>
    /\ AfterParse("ParseNull", cJSON_Parse(NullText, heap), 0)

\* cJSON_ParseWithLength(text, n) on the first n bytes of the client's
\* memory, which ends with its last byte.
ParseWithLength ==
    /\ res.call = "none"
    /\ \E n \in 0..Len(mem) :
          AfterParse("ParseWithLength",
                     cJSON_ParseWithLength(TextPtr(mem), n, heap), 0)

\* A parse call has returned (a tree or NULL) without running off the
\* client's memory.
Parsed ==
    /\ res.call \in {"Parse", "ParseNull", "ParseWithLength"}
    /\ ~res.segv /\ ~res.ovf

ParsedOk == Parsed /\ res.ret # NULL

\* The bytes of the text a print call returned; nothing for NULL.
TextOf(pr) == IF pr.ret = NULL THEN <<>> ELSE pr.H.blk[pr.ret]

\* The client keeps a copy of the text pr.ret and frees the block; a print
\* call that returned NULL leaves it nothing to free.
KeepText(call, pr, failAt) ==
    /\ res' = [res EXCEPT !.call = call,
                          !.out = IF call = "PrintRoot" THEN TextOf(pr) ELSE @,
                          !.out2 = IF call = "PrintDup" THEN TextOf(pr) ELSE @,
                          !.got = pr.ret,
                          !.povf = pr.p.ovf,
                          !.edge = pr.p.edge,
                          !.grown = pr.p.grown,
                          !.reqs = pr.H.cnt - heap.cnt,
                          !.refused = (failAt # 0 /\ pr.H.failAt = 0)]
    /\ heap' = [(IF pr.ret = NULL THEN pr.H ELSE Free(pr.H, pr.ret))
                 EXCEPT !.failAt = 0]
    /\ UNCHANGED <<mem, typed, root, global_error>>

\* The calls of a client that builds a tree, and the state in which its
\* tree is built: a root, and no item waiting to be attached.
CreateCalls ==
    {"CreateNull", "CreateBool", "CreateNumber", "CreateString", "CreateRaw",
     "CreateArray", "CreateObject"}

AttachCalls ==
    {"Adopt", "AddItemToArray", "AddItemToObject", "AddItemToObjectCS"}

Built == res.call \in AttachCalls /\ root # NULL /\ res.ret = NULL

\* text = cJSON_PrintUnformatted(root)
PrintRoot ==
    /\ ParsedOk \/ Built
    /\ \E failAt \in 0..MaxPrintFail :
          KeepText("PrintRoot",
                   cJSON_PrintUnformatted([heap EXCEPT !.failAt = failAt], root),
                   failAt)

\* The state after cJSON_Duplicate answered d
KeepDup(d) ==
    /\ d.parsed
    /\ res' = [res EXCEPT !.call = "Duplicate", !.dup = d.ret]
    /\ heap' = d.H
    /\ global_error' = SlotAfter(global_error, d.b)
    /\ UNCHANGED <<mem, typed, root>>

\* dup = cJSON_Duplicate(root, 1)
Duplicate ==
    /\ res.call = "PrintRoot" /\ res.got # NULL
    /\ KeepDup(cJSON_Duplicate(heap, root))

\* text2 = cJSON_PrintUnformatted(dup)
PrintDup ==
    /\ res.call = "Duplicate" /\ res.dup # NULL
    /\ KeepText("PrintDup", cJSON_PrintUnformatted(heap, res.dup), 0)

\* cJSON_GetObjectItem(root, key) and
\* cJSON_GetObjectItemCaseSensitive(root, key)
GetObjectItem ==
    /\ Parsed
    /\ \E k \in Keys :
          res' = [res EXCEPT
                    !.call = "GetObjectItem", !.key = k,
                    !.ret = cJSON_GetObjectItem(heap, root, k),
                    !.exact = cJSON_GetObjectItemCaseSensitive(heap, root, k)]
    /\ UNCHANGED <<mem, typed, heap, root, global_error>>

\* cJSON_GetArrayItem(root, index), with cJSON_GetArraySize(root)
GetArrayItem ==
    /\ Parsed
    /\ \E i \in (0 - 1)..MaxIndex :
          res' = [res EXCEPT
                    !.call = "GetArrayItem", !.index = i,
                    !.ret = cJSON_GetArrayItem(heap, root, i),
                    !.length = cJSON_GetArraySize(heap, root)]
    /\ UNCHANGED <<mem, typed, heap, root, global_error>>

NextParse ==
    \/ LoadSample
    \/ Type
    \/ Parse
    \/ ParseNull
    \/ ParseWithLength
    \/ PrintRoot
    \/ Duplicate
    \/ PrintDup
    \/ GetObjectItem
    \/ GetArrayItem

SpecParse == InitParse /\ [][NextParse]_vars

(***************************************************************************)
(* The client of the builder.  It creates items one at a time, keeps the   *)
(* first as the root of its tree and attaches each later one to an array   *)
(* or an object of the tree, then prints the tree and parses the text.     *)
(***************************************************************************)
MaxBlocks == 4
MaxCreateFail == 2

\* A text long enough for print_string_ptr to outgrow the first buffer.
LongLen == 43
LongText == [i \in 1..LongLen |-> ch.a]

\* The values of the items the client makes: those of BuildNumbers and
\* BuildTexts for every item, and more for the first block of the heap.
BuildNumbers ==
    {DoubleOfInt(0 - 12),
     MkDouble(FALSE, <<2, 1, 4, 7, 4, 8, 3, 6, 4, 8>>, 9),
     MkDouble(FALSE, <<1, 5>>, 0), Inf(FALSE)}

FirstNumbers ==
    BuildNumbers \cup
    {DoubleOfInt(3), MkDouble(FALSE, <<3, 5>>, 0),
     MkDouble(FALSE, <<1, 0, 0, 0, 0, 0, 2, 5>>, 5),
     MkDouble(TRUE, <<2, 5>>, 0 - 1), Inf(TRUE), NaN}

BuildTexts ==
    {NullText, TextPtr(Bytes("a")), TextPtr(<<ch.quote, ch.tab, ch.sp>>)}

FirstTexts ==
    BuildTexts \cup
    {TextPtr(<<ch.tab, ch.quote>>), TextPtr(<<ch.bsp, ch.ff, ch.lf, ch.cr>>),
     TextPtr(<<ch.soh, ch.sp - 1, ch.bslash, ch.sp + 168>>), TextPtr(LongText)}

Numbers == IF heap.cnt = 0 THEN FirstNumbers ELSE BuildNumbers
Texts == IF heap.cnt = 0 THEN FirstTexts ELSE BuildTexts

BuildKeys == {TextPtr(Bytes("a")), TextPtr(Bytes("B"))}

\* The calls of a client that builds a tree.
HelperCalls ==
    {"AddNullToObject", "AddTrueToObject", "AddFalseToObject",
     "AddBoolToObject", "AddNumberToObject", "AddStringToObject",
     "AddRawToObject", "AddObjectToObject", "AddArrayToObject"}

BuildCalls ==
    CreateCalls \cup AttachCalls \cup HelperCalls
    \cup {"Invalidate", "MakeReference", "Delete", "Classify", "InitHooks"}

\* The client is building: it holds a tree (root, or none) and at most one
\* item that is not attached yet (res.ret).
Building == res.call \in {"none"} \cup BuildCalls

Pending == Building /\ res.ret # NULL

\* What the client remembers from one build call to the next: the item it
\* holds and the hooks it installed.
Fresh ==
    [Idle EXCEPT !.ret = res.ret, !.inits = res.inits, !.hooks = res.hooks]

CanCreate ==
    /\ Building
    /\ res.ret = NULL
    /\ heap.cnt < MaxBlocks

\* The state after a cJSON_Create* call answered m: the client holds the
\* new item (or NULL).
Created(call, m, failAt, text, num) ==
    /\ heap' = [m.H EXCEPT !.failAt = 0]
    /\ res' = [Fresh EXCEPT !.call = call, !.ret = m.p, !.got = m.p,
                          !.text = text, !.num = num,
                          !.reqs = m.H.cnt - heap.cnt,
                          !.refused = (failAt # 0 /\ m.H.failAt = 0)]
    /\ UNCHANGED <<mem, typed, root, global_error>>

CreateNull ==
    /\ CanCreate
    /\ \E failAt \in 0..MaxCreateFail :
          Created("CreateNull",
                  cJSON_CreateNull([heap EXCEPT !.failAt = failAt]), failAt,
                  NullText, Zero)

CreateBool ==
    /\ CanCreate
    /\ \E failAt \in 0..MaxCreateFail, boolean \in BOOLEAN :
          Created("CreateBool",
                  cJSON_CreateBool([heap EXCEPT !.failAt = failAt], boolean),
                  failAt, NullText, IF boolean THEN DoubleOfInt(1) ELSE Zero)

CreateNumber ==
    /\ CanCreate
    /\ \E failAt \in 0..MaxCreateFail, num \in Numbers :
          Created("CreateNumber",
                  cJSON_CreateNumber([heap EXCEPT !.failAt = failAt], num),
                  failAt, NullText, num)

CreateString ==
    /\ CanCreate
    /\ \E failAt \in 0..MaxCreateFail, string \in Texts :
          Created("CreateString",
                  cJSON_CreateString([heap EXCEPT !.failAt = failAt], string),
                  failAt, string, Zero)

CreateRaw ==
    /\ CanCreate
    /\ \E failAt \in 0..MaxCreateFail, raw \in Texts :
          Created("CreateRaw",
                  cJSON_CreateRaw([heap EXCEPT !.failAt = failAt], raw),
                  failAt, raw, Zero)

CreateArray ==
    /\ CanCreate
    /\ \E failAt \in 0..MaxCreateFail :
          Created("CreateArray",
                  cJSON_CreateArray([heap EXCEPT !.failAt = failAt]), failAt,
                  NullText, Zero)

CreateObject ==
    /\ CanCreate
    /\ \E failAt \in 0..MaxCreateFail :
          Created("CreateObject",
                  cJSON_CreateObject([heap EXCEPT !.failAt = failAt]), failAt,
                  NullText, Zero)

\* The client writes cJSON_Invalid into the type of the null item it holds.
Invalidate ==
    /\ res.call = "CreateNull" /\ res.ret # NULL
    /\ heap' = [heap EXCEPT !.node[res.ret].type = cJSON_Invalid]
    /\ res' = [Fresh EXCEPT !.call = "Invalidate"]
    /\ UNCHANGED <<mem, typed, root, global_error>>

\* The item the client holds can go into a tree: it has no children of
\* another tree.
Attachable == Pending /\ heap.node[res.ret].child = NULL

\* The client keeps the item it holds as the root of its tree.
Adopt ==
    /\ Attachable /\ root = NULL
    /\ root' = res.ret
    /\ res' = [Fresh EXCEPT !.call = "Adopt", !.ret = NULL]
    /\ UNCHANGED <<mem, typed, heap, global_error>>

\* The cJSON structs among the blocks.
Nodes(H) == {p \in H.live : H.blk[p] = <<>>}

\* The items of the client's tree that are of the given kind.
Containers(kind) ==
    {p \in Nodes(heap) \ {res.ret} : KindOf(heap.node[p].type) = kind}

\* The state after an attach call on the container answered r.
Attached(call, r, container, string) ==
    /\ r.ok
    /\ heap' = r.H
    /\ res' = [Fresh EXCEPT !.call = call, !.ret = NULL, !.got = res.ret,
                          !.arg = container, !.key = string]
    /\ UNCHANGED <<mem, typed, root, global_error>>

\* cJSON_AddItemToArray(array, item), array being an array of the tree
AddItemToArray ==
    /\ Attachable /\ root # NULL
    /\ \E array \in Containers(cJSON_Array) :
          Attached("AddItemToArray",
                   cJSON_AddItemToArray(heap, array, res.ret), array, NullText)

\* cJSON_AddItemToObject(object, key, item), object being an object of the
\* tree
AddItemToObject ==
    /\ Attachable /\ root # NULL
    /\ \E object \in Containers(cJSON_Object), string \in BuildKeys :
          Attached("AddItemToObject",
                   cJSON_AddItemToObject(heap, object, string, res.ret),
                   object, string)

\* cJSON_AddItemToObjectCS(object, "key", item), the key a string literal
AddItemToObjectCS ==
    /\ Attachable /\ root # NULL
    /\ \E object \in Containers(cJSON_Object), string \in BuildKeys :
          Attached("AddItemToObjectCS",
                   cJSON_AddItemToObjectCS(heap, object, string, res.ret),
                   object, string)

\* The state after cJSON_Parse(text) answered r, text being the printed
\* tree.
KeepParsed(r) ==
    /\ heap' = r.b.H
    /\ global_error' = SlotAfter(global_error, r.b)
    /\ res' = [res EXCEPT !.call = "ParseText", !.dup = r.ret,
                          !.segv = r.b.segv, !.ovf = r.b.ovf]
    /\ UNCHANGED <<mem, typed, root>>

\* The longest text the client parses back.
MaxParseLen == 20

\* parsed = cJSON_Parse(text)
ParseText ==
    /\ res.call = "PrintRoot" /\ res.got # NULL /\ Len(res.out) <= MaxParseLen
    /\ KeepParsed(cJSON_Parse(TextPtr(res.out), heap))

\* text = cJSON_PrintUnformatted(NULL)
PrintNull ==
    /\ Building /\ res.ret = NULL
    /\ \E failAt \in 0..1 :
          KeepText("PrintNull",
                   cJSON_PrintUnformatted([heap EXCEPT !.failAt = failAt], NULL),
                   failAt)

NextBuild ==
    \/ CreateNull
    \/ CreateBool
    \/ CreateNumber
    \/ CreateString
    \/ CreateRaw
    \/ CreateArray
    \/ CreateObject
    \/ Invalidate
    \/ Adopt
    \/ AddItemToArray
    \/ AddItemToObject
    \/ PrintRoot
    \/ PrintNull
    \/ ParseText

SpecBuild == InitParse /\ [][NextBuild]_vars

(***************************************************************************)
(* The client of the helpers, the predicates and cJSON_Delete.  It builds  *)
(* a tree as above, adds members to its objects with the create-and-attach *)
(* helpers, turns an item it holds into a reference, asks for the kind of  *)
(* an item and deletes its tree or the item it holds.                      *)
(***************************************************************************)
\* The allocation requests of a helper among which one may be refused: the
\* item, the copy of its text, the copy of the key.
MaxAttachFail == 3

CanHelp == CanCreate /\ root # NULL

\* The names a helper is given.
HelperKeys == {NullText, TextPtr(Bytes("a"))}

\* What a helper is called with: an object of the tree and a name, with
\* one of the allocation requests refused or none; or a NULL object; or a
\* NULL name.
HelperArgs ==
    {[object |-> o, name |-> TextPtr(Bytes("a")), failAt |-> f] :
        o \in Containers(cJSON_Object), f \in 0..MaxAttachFail}
    \cup {[object |-> NULL, name |-> n, failAt |-> 0] : n \in HelperKeys}
    \cup {[object |-> o, name |-> NullText, failAt |-> f] :
            o \in Containers(cJSON_Object), f \in 0..1}

\* The values the helpers are given.
HelperNumbers == {MkDouble(FALSE, <<1, 5>>, 0)}
HelperTexts == {NullText, TextPtr(Bytes("a"))}

\* The state after a cJSON_Add*ToObject helper answered r.
Helped(call, r, object, name, failAt) ==
    /\ heap' = [r.H EXCEPT !.failAt = 0]
    /\ res' = [Fresh EXCEPT !.call = call, !.got = r.ret, !.arg = object,
                          !.key = name,
                          !.reqs = r.H.cnt - heap.cnt,
                          !.refused = (failAt # 0 /\ r.H.failAt = 0)]
    /\ UNCHANGED <<mem, typed, root, global_error>>

AddNullToObject ==
    /\ CanHelp
    /\ \E a \in HelperArgs :
          Helped("AddNullToObject",
                 cJSON_AddNullToObject([heap EXCEPT !.failAt = a.failAt],
                                     a.object, a.name),
                 a.object, a.name, a.failAt)

AddTrueToObject ==
    /\ CanHelp
    /\ \E a \in HelperArgs :
          Helped("AddTrueToObject",
                 cJSON_AddTrueToObject([heap EXCEPT !.failAt = a.failAt],
                                     a.object, a.name),
                 a.object, a.name, a.failAt)

AddFalseToObject ==
    /\ CanHelp
    /\ \E a \in HelperArgs :
          Helped("AddFalseToObject",
                 cJSON_AddFalseToObject([heap EXCEPT !.failAt = a.failAt],
                                     a.object, a.name),
                 a.object, a.name, a.failAt)

AddBoolToObject ==
    /\ CanHelp
    /\ \E a \in HelperArgs, boolean \in BOOLEAN :
          Helped("AddBoolToObject",
                 cJSON_AddBoolToObject([heap EXCEPT !.failAt = a.failAt],
                                     a.object, a.name, boolean),
                 a.object, a.name, a.failAt)

AddNumberToObject ==
    /\ CanHelp
    /\ \E a \in HelperArgs, number \in HelperNumbers :
          Helped("AddNumberToObject",
                 cJSON_AddNumberToObject([heap EXCEPT !.failAt = a.failAt],
                                     a.object, a.name, number),
                 a.object, a.name, a.failAt)

AddStringToObject ==
    /\ CanHelp
    /\ \E a \in HelperArgs, string \in HelperTexts :
          Helped("AddStringToObject",
                 cJSON_AddStringToObject([heap EXCEPT !.failAt = a.failAt],
                                     a.object, a.name, string),
                 a.object, a.name, a.failAt)

AddRawToObject ==
    /\ CanHelp
    /\ \E a \in HelperArgs, raw \in HelperTexts :
          Helped("AddRawToObject",
                 cJSON_AddRawToObject([heap EXCEPT !.failAt = a.failAt],
                                     a.object, a.name, raw),
                 a.object, a.name, a.failAt)

AddObjectToObject ==
    /\ CanHelp
    /\ \E a \in HelperArgs :
          Helped("AddObjectToObject",
                 cJSON_AddObjectToObject([heap EXCEPT !.failAt = a.failAt],
                                     a.object, a.name),
                 a.object, a.name, a.failAt)

AddArrayToObject ==
    /\ CanHelp
    /\ \E a \in HelperArgs :
          Helped("AddArrayToObject",
                 cJSON_AddArrayToObject([heap EXCEPT !.failAt = a.failAt],
                                     a.object, a.name),
                 a.object, a.name, a.failAt)

\* The client turns the item it holds into a reference: a String whose
\* text is a string literal of the client, or an Array or Object whose
\* children are the client's tree.
MakeReference ==
    /\ Pending
    /\ ~HasFlag(heap.node[res.ret].type, cJSON_IsReference)
    /\ heap.node[res.ret].child = NULL /\ heap.node[res.ret].valuestring = NULL
    /\ \/ /\ KindOf(heap.node[res.ret].type) = cJSON_String
          /\ heap' = [Literal(heap, Bytes("a")).H EXCEPT
                        !.node[res.ret].valuestring = heap.cnt + 1,
                        !.node[res.ret].type = @ + cJSON_IsReference]
       \/ /\ KindOf(heap.node[res.ret].type) \in {cJSON_Array, cJSON_Object}
          /\ root # NULL
          /\ heap' = [heap EXCEPT !.node[res.ret].child = root,
                                  !.node[res.ret].type = @ + cJSON_IsReference]
    /\ res' = [Fresh EXCEPT !.call = "MakeReference"]
    /\ UNCHANGED <<mem, typed, root, global_error>>

\* What the client may delete: nothing (NULL), the item it holds, or its
\* tree when it holds no item.
Deletable ==
    {NULL} \cup (IF res.ret # NULL THEN {res.ret}
                 ELSE IF root # NULL THEN {root} ELSE {})

\* cJSON_Delete(item)
Delete ==
    /\ Building \/ res.call = "PrintRoot"
    /\ \E item \in Deletable :
          /\ heap' = cJSON_Delete(heap, item)
          /\ root' = IF item # NULL /\ item = root THEN NULL ELSE root
          /\ res' = [Fresh EXCEPT !.call = "Delete", !.arg = item,
                                !.ret = IF item = NULL THEN @ ELSE NULL]
    /\ UNCHANGED <<mem, typed, global_error>>

\* The ten kind predicates asked of an item of the heap or of NULL.
Classify ==
    /\ Building
    /\ \E item \in Nodes(heap) \cup {NULL} :
          res' = [Fresh EXCEPT
                    !.call = "Classify", !.arg = item,
                    !.preds = [IsInvalid |-> cJSON_IsInvalid(heap, item),
                               IsFalse |-> cJSON_IsFalse(heap, item),
                               IsTrue |-> cJSON_IsTrue(heap, item),
                               IsBool |-> cJSON_IsBool(heap, item),
                               IsNull |-> cJSON_IsNull(heap, item),
                               IsNumber |-> cJSON_IsNumber(heap, item),
                               IsString |-> cJSON_IsString(heap, item),
                               IsArray |-> cJSON_IsArray(heap, item),
                               IsObject |-> cJSON_IsObject(heap, item),
                               IsRaw |-> cJSON_IsRaw(heap, item)]]
    /\ UNCHANGED <<mem, typed, heap, root, global_error>>

\* The client that fills an object with the helpers.
NextHelp ==
    \/ CreateObject
    \/ Adopt
    \/ AddNullToObject
    \/ AddTrueToObject
    \/ AddFalseToObject
    \/ AddBoolToObject
    \/ AddNumberToObject
    \/ AddStringToObject
    \/ AddRawToObject
    \/ AddObjectToObject
    \/ AddArrayToObject

SpecHelp == InitParse /\ [][NextHelp]_vars

\* The client that builds trees with owned and constant keys, makes
\* references and deletes what it built.
NextOwn ==
    \/ CreateString
    \/ CreateArray
    \/ CreateObject
    \/ Adopt
    \/ AddItemToArray
    \/ AddItemToObject
    \/ AddItemToObjectCS
    \/ MakeReference
    \/ Delete

SpecOwn == InitParse /\ [][NextOwn]_vars

\* The client that asks for the kinds of the items it made.
NextKinds ==
    \/ CreateNull
    \/ CreateBool
    \/ CreateNumber
    \/ CreateString
    \/ CreateRaw
    \/ CreateArray
    \/ CreateObject
    \/ Invalidate
    \/ Adopt
    \/ AddItemToObjectCS
    \/ MakeReference
    \/ Classify

SpecKinds == InitParse /\ [][NextKinds]_vars

(***************************************************************************)
(* The client of the allocator hooks.  It installs hooks while the library *)
(* holds no block of its own, then builds, prints and deletes a tree.      *)
(***************************************************************************)
\* The calls of cJSON_InitHooks the client makes.
MaxInits == 2

HookArgs ==
    {NoHooks, Hooks("my_malloc", "my_free"), Hooks("my_malloc", "none"),
     Hooks("none", "my_free"), Hooks("none", "none")}

\* cJSON_InitHooks(hooks)
InitHooks ==
    /\ Building /\ heap.live = {} /\ res.inits < MaxInits
    /\ \E hooks \in HookArgs :
          /\ heap' = cJSON_InitHooks(heap, hooks)
          /\ res' = [Fresh EXCEPT !.call = "InitHooks", !.hooks = hooks,
                                !.inits = @ + 1]
    /\ UNCHANGED <<mem, typed, root, global_error>>

NextHooks ==
    \/ InitHooks
    \/ CreateNull
    \/ CreateObject
    \/ Adopt
    \/ AddItemToObject
    \/ PrintRoot
    \/ Delete

SpecHooks == InitParse /\ [][NextHooks]_vars

(***************************************************************************)
(* Properties of the lookups.  The children of a node are read off the     *)
(* heap by following child and next, independently of the lookup loops.    *)
(***************************************************************************)
RECURSIVE Siblings(_, _)
Siblings(H, c) ==
    IF c = NULL THEN <<>> ELSE <<c>> \o Siblings(H, H.node[c].next)

Children(H, p) == IF p = NULL THEN <<>> ELSE Siblings(H, H.node[p].child)

KeyOf(H, c) == StrOf(H, H.node[c].string)

\* ASCII case folding, and equality of two byte strings under it.
Fold(c) == IF c >= ch.A /\ c <= ch.Z THEN c + 32 ELSE c

FoldEq(s, t) ==
    /\ Len(s) = Len(t)
    /\ \A i \in 1..Len(s) : Fold(s[i]) = Fold(t[i])

\* The element of kids at the least index of S, NULL when S is empty.
FirstOf(kids, S) ==
    IF S = {} THEN NULL ELSE kids[CHOOSE i \in S : \A j \in S : i <= j]

\* C9: cJSON_GetObjectItem returns the first child, in sibling order, whose
\* key equals the requested key ignoring ASCII case, and
\* cJSON_GetObjectItemCaseSensitive the first child whose key equals it
\* exactly; both return NULL when no child matches or when the object or
\* the key is NULL.
C9FirstMatch ==
    res.call = "GetObjectItem" =>
        LET kids == Children(heap, root)
            keyed == {i \in 1..Len(kids) : ~KeyOf(heap, kids[i]).null}
            ci == {i \in keyed : FoldEq(KeyOf(heap, kids[i]).bytes, res.key.bytes)}
            cs == {i \in keyed : KeyOf(heap, kids[i]).bytes = res.key.bytes}
        IN  IF root = NULL \/ res.key.null
            THEN res.ret = NULL /\ res.exact = NULL
            ELSE res.ret = FirstOf(kids, ci) /\ res.exact = FirstOf(kids, cs)

\* An object with two members of the same key was looked up by that key and
\* both lookups returned the first member, whose value is 1.
C9Witness ==
    /\ res.call = "GetObjectItem"
    /\ root # NULL /\ KindOf(heap.node[root].type) = cJSON_Object
    /\ ~res.key.null
    /\ LET kids == Children(heap, root)
       IN  /\ Len(kids) = 2
           /\ KeyOf(heap, kids[1]) = res.key /\ KeyOf(heap, kids[2]) = res.key
           /\ res.ret = kids[1] /\ res.exact = kids[1]
           /\ heap.node[kids[1]].valuedouble = DoubleOfInt(1)
           /\ heap.node[kids[2]].valuedouble = DoubleOfInt(2)

\* C10: cJSON_GetArrayItem(a, i) returns the i-th child (from zero) when
\* 0 <= i < size and NULL otherwise, and cJSON_GetArraySize(a) is the
\* number of children found by following the sibling links.
C10Indexing ==
    res.call = "GetArrayItem" =>
        LET kids == Children(heap, root)
        IN  /\ res.length = Len(kids)
            /\ res.ret = IF res.index >= 0 /\ res.index < Len(kids)
                         THEN kids[res.index + 1] ELSE NULL

\* The second element of an array of at least two was asked for and got.
C10Witness ==
    /\ res.call = "GetArrayItem"
    /\ root # NULL /\ KindOf(heap.node[root].type) = cJSON_Array
    /\ res.index = 1 /\ res.length >= 2
    /\ res.ret = Children(heap, root)[2]

(***************************************************************************)
(* A reference reading of JSON text, written from the grammar and not from *)
(* the parser.  T is the text without its terminator and positions count   *)
(* from zero; an end position of -1 means "no such token here".  With      *)
(* strict = TRUE it is the JSON grammar; with strict = FALSE strings may   *)
(* hold any byte and any escape, numbers are a run of number characters    *)
(* and every byte up to the space counts as whitespace.                    *)
(***************************************************************************)
NoEnd == 0 - 1

IsHex(c) ==
    \/ IsDigit(c)
    \/ c >= ch.a /\ c <= ch.f
    \/ c >= ch.A /\ c <= ch.A + 5

RECURSIVE RefWs(_, _, _)
RefWs(T, i, strict) ==
    IF i < Len(T)
       /\ IF strict THEN T[i + 1] \in {ch.sp, ch.tab, ch.lf, ch.cr}
                    ELSE T[i + 1] <= ch.sp
    THEN RefWs(T, i + 1, strict) ELSE i

\* The position after the closing quote of the string whose first byte
\* after the opening quote is at i.
RECURSIVE RefStringEnd(_, _, _)
RefStringEnd(T, i, strict) ==
    IF i >= Len(T) THEN NoEnd
    ELSE IF T[i + 1] = ch.quote THEN i + 1
    ELSE IF T[i + 1] = ch.bslash
    THEN IF i + 1 >= Len(T) THEN NoEnd
         ELSE IF strict
                 /\ T[i + 2] \notin {ch.quote, ch.bslash, ch.slash, ch.b,
                                     ch.f, ch.n, ch.r, ch.t, ch.u}
         THEN NoEnd
         ELSE IF strict /\ T[i + 2] = ch.u
                 /\ ~(i + 6 <= Len(T) /\ \A k \in 3..6 : IsHex(T[i + k]))
         THEN NoEnd
         ELSE RefStringEnd(T, i + 2, strict)
    ELSE IF strict /\ T[i + 1] < ch.sp THEN NoEnd
    ELSE RefStringEnd(T, i + 1, strict)

RECURSIVE RefRunEnd(_, _)
RefRunEnd(T, i) ==
    IF i < Len(T)
       /\ (IsDigit(T[i + 1])
            \/ T[i + 1] \in {ch.plus, ch.minus, ch.dot, ch.e, ch.E})
    THEN RefRunEnd(T, i + 1) ELSE i

\* The position after the number that starts at i.
RefNumberEnd(T, i, strict) ==
    IF ~strict THEN RefRunEnd(T, i)
    ELSE LET i1 == IF At(T, i) = ch.minus THEN i + 1 ELSE i
             i2 == IF At(T, i1) = ch.d0 THEN i1 + 1 ELSE DigitEnd(T, i1)
             i3 == IF At(T, i2) = ch.dot THEN DigitEnd(T, i2 + 1) ELSE i2
             j == IF At(T, i3 + 1) \in {ch.plus, ch.minus}
                  THEN i3 + 2 ELSE i3 + 1
             i4 == IF At(T, i3) \in {ch.e, ch.E} THEN DigitEnd(T, j) ELSE i3
         IN  IF ~IsDigit(At(T, i1)) THEN NoEnd
             ELSE IF At(T, i2) = ch.dot /\ i3 = i2 + 1 THEN NoEnd
             ELSE IF At(T, i3) \in {ch.e, ch.E} /\ i4 = j THEN NoEnd
             ELSE i4

StartsWith(T, i, word) ==
    /\ i + Len(word) <= Len(T)
    /\ \A k \in 1..Len(word) : T[i + k] = word[k]

RECURSIVE RefValueEnd(_, _, _)
RECURSIVE RefItemsEnd(_, _, _)
RECURSIVE RefMembersEnd(_, _, _)

\* The position after the value that starts at or after i.
RefValueEnd(T, i0, strict) ==
    LET i == RefWs(T, i0, strict)
        c == At(T, i)
        j == RefWs(T, i + 1, strict)
    IN  IF i >= Len(T) THEN NoEnd
        ELSE IF c = ch.quote THEN RefStringEnd(T, i + 1, strict)
        ELSE IF c = ch.lbrack
        THEN IF At(T, j) = ch.rbrack THEN j + 1 ELSE RefItemsEnd(T, j, strict)
        ELSE IF c = ch.lbrace
        THEN IF At(T, j) = ch.rbrace THEN j + 1 ELSE RefMembersEnd(T, j, strict)
        ELSE IF c = ch.minus \/ IsDigit(c) THEN RefNumberEnd(T, i, strict)
        ELSE IF StartsWith(T, i, Bytes("null")) THEN i + 4
        ELSE IF StartsWith(T, i, Bytes("true")) THEN i + 4
        ELSE IF StartsWith(T, i, Bytes("false")) THEN i + 5
        ELSE NoEnd

\* The position after the "]" of the array whose next element starts at i.
RefItemsEnd(T, i, strict) ==
    LET e == RefValueEnd(T, i, strict)
        j == RefWs(T, e, strict)
    IN  IF e = NoEnd THEN NoEnd
        ELSE IF At(T, j) = ch.comma THEN RefItemsEnd(T, j + 1, strict)
        ELSE IF At(T, j) = ch.rbrack THEN j + 1
        ELSE NoEnd

\* The position after the "}" of the object whose next member starts at i.
RefMembersEnd(T, i, strict) ==
    LET k == RefWs(T, i, strict)
        q == IF At(T, k) = ch.quote THEN RefStringEnd(T, k + 1, strict)
             ELSE NoEnd
        c == RefWs(T, q, strict)
        e == IF At(T, c) = ch.colon THEN RefValueEnd(T, c + 1, strict)
             ELSE NoEnd
        j == RefWs(T, e, strict)
    IN  IF q = NoEnd \/ e = NoEnd THEN NoEnd
        ELSE IF At(T, j) = ch.comma THEN RefMembersEnd(T, j + 1, strict)
        ELSE IF At(T, j) = ch.rbrace THEN j + 1
        ELSE NoEnd

\* The bytes a string literal's body stands for, every \uXXXX standing for
\* one "?".
RECURSIVE RefDecode(_)
RefDecode(s) ==
    IF s = <<>> THEN <<>>
    ELSE IF Head(s) # ch.bslash THEN <<Head(s)>> \o RefDecode(Tail(s))
    ELSE IF s[2] = ch.u THEN <<ch.qmark>> \o RefDecode(SubSeq(s, 7, Len(s)))
    ELSE <<CASE s[2] = ch.b -> 8 [] s[2] = ch.f -> 12 [] s[2] = ch.n -> 10
             [] s[2] = ch.r -> 13 [] s[2] = ch.t -> 9 [] OTHER -> s[2]>>
         \o RefDecode(SubSeq(s, 3, Len(s)))

\* Every backslash of the body starts a complete escape, and every \u is
\* followed by four hex digits.
RECURSIVE EscapesComplete(_)
EscapesComplete(s) ==
    IF s = <<>> THEN TRUE
    ELSE IF Head(s) # ch.bslash THEN EscapesComplete(Tail(s))
    ELSE IF Len(s) < 2 THEN FALSE
    ELSE IF s[2] = ch.u
    THEN /\ Len(s) >= 6 /\ \A k \in 3..6 : IsHex(s[k])
         /\ EscapesComplete(SubSeq(s, 7, Len(s)))
    ELSE EscapesComplete(SubSeq(s, 3, Len(s)))

\* The text cJSON_Parse was called on: the client's memory up to its first
\* NUL.
Text == CStr(Append(mem, ch.nul))

\* C8: every \uXXXX escape in a string literal is decoded to exactly one
\* "?" byte, the four hex digits being skipped: a text that is a string
\* literal with complete escapes parses to a String node whose value is
\* the literal's body with each escape replaced by the byte it stands for
\* and each \uXXXX by "?".
C8Placeholder ==
    LET e == RefStringEnd(Text, 1, FALSE)
        body == SubSeq(Text, 2, e - 1)
    IN  (/\ res.call = "Parse" /\ ~res.refused
         /\ Len(Text) >= 2 /\ Text[1] = ch.quote
         /\ e # NoEnd /\ EscapesComplete(body))
        => /\ ParsedOk
           /\ KindOf(heap.node[root].type) = cJSON_String
           /\ heap.node[root].valuestring # NULL
           /\ heap.blk[heap.node[root].valuestring]
                = Append(RefDecode(body), ch.nul)

\* The text "\u0041" was parsed and the value of the String node is "?".
C8Witness ==
    /\ res.call = "Parse" /\ ParsedOk
    /\ Text = Bytes("\"\\u0041\"")
    /\ KindOf(heap.node[root].type) = cJSON_String
    /\ StrOf(heap, heap.node[root].valuestring) = TextPtr(Bytes("?"))

\* C4: when a parse call fails (allocation failures included), every node
\* and every string allocated during the call has been freed exactly once:
\* nothing is left allocated and nothing was freed twice or used after its
\* release.
C4FailedParseFrees ==
    (Parsed /\ res.ret = NULL) => heap.live = {} /\ ~heap.bad

\* A parse failed on a refused allocation after at least four granted ones.
C4Witness ==
    /\ Parsed /\ res.ret = NULL
    /\ res.refused /\ res.reqs >= 4
    /\ heap.cnt = res.reqs

\* The messages the parser's failure sites store in the error slot.
ParseMessages ==
    {"Not a string", "Unterminated string", "Invalid number", "Not an object",
     "Expected ':'", "Expected '}'", "Not an array", "Expected ']'",
     "Invalid buffer", "Unexpected end", "Invalid value", "Null input",
     "Memory error"}

\* C7 (as stated): after a failed parse call cJSON_GetErrorPtr() returns
\* either NULL or a pointer to a position inside the text that was parsed.
C7PointsIntoText ==
    (Parsed /\ res.ret = NULL) =>
        LET e == cJSON_GetErrorPtr(global_error)
        IN  \/ e.seg = "null"
            \/ e.seg = "text" /\ e.off >= 0 /\ e.off <= res.length

\* C7 (amended): after a failed parse call cJSON_GetErrorPtr() returns the
\* address of one of the parser's static message strings, or NULL when the
\* call failed on a refused allocation below the root item; it never
\* returns a position inside the text.
C7StaticMessage ==
    (Parsed /\ res.ret = NULL) =>
        LET e == cJSON_GetErrorPtr(global_error)
        IN  \/ e.seg = "static" /\ e.msg \in ParseMessages
            \/ e = NoError /\ res.refused /\ res.reqs >= 1

\* The text {"a":} failed to parse and the slot holds "Invalid value".
C7Witness ==
    /\ res.call = "Parse" /\ Parsed /\ res.ret = NULL
    /\ Text = Bytes("{\"a\":}")
    /\ cJSON_GetErrorPtr(global_error) = Message("Invalid value")

\* C5: cJSON_ParseWithLength(text, length) never reads a byte of text at
\* an index >= length.
C5ReadsInsideLength ==
    res.call = "ParseWithLength" => res.rd < res.length

\* A text has no value the lenient reading accepts: it is empty, or has a
\* missing ":", a missing closing bracket or brace, an unterminated string,
\* an invalid literal or a dangling ",".
Malformed(T) == RefValueEnd(T, 0, FALSE) = NoEnd

\* C3: for a malformed text cJSON_Parse returns NULL.
C3MalformedIsRejected ==
    (res.call = "Parse" /\ Parsed /\ Malformed(Text)) => res.ret = NULL

\* C2: for every text that parses, the text printed from its tree parses,
\* and printing that second tree gives the same text again.
C2Idempotent ==
    /\ res.call = "Duplicate" => res.dup # NULL
    /\ res.call = "PrintDup" => res.out2 = res.out

\* V is a complete valid JSON value (whitespace may surround it).
ValidComplete(V) ==
    LET e == RefValueEnd(V, 0, TRUE)
    IN  e # NoEnd /\ RefWs(V, e, TRUE) = Len(V)

\* V is a number at top level.
IsNumberText(V) ==
    LET c == At(V, RefWs(V, 0, TRUE)) IN c = ch.minus \/ IsDigit(c)

\* The tree cJSON_Parse returns for the text V alone ("none" when NULL).
TreeOfParse(V) ==
    LET r == cJSON_Parse(TextPtr(Append(V, ch.nul)), EmptyHeap(0))
    IN  IF r.ret = NULL THEN "none" ELSE TreeOf(r.b.H, r.ret)

\* The proper prefixes V of the parsed text, X being the rest of it.
Prefixes == {k \in 1..(Len(Text) - 1) : ValidComplete(SubSeq(Text, 1, k))}

\* C6 (as stated): parsing a complete valid JSON value V followed by any
\* bytes X succeeds and returns the same tree as parsing V alone.
C6TrailingIgnored ==
    (res.call = "Parse" /\ ~res.refused) =>
        \A k \in Prefixes :
            ParsedOk /\ TreeOf(heap, root) = TreeOfParse(SubSeq(Text, 1, k))

\* C6 (amended): parsing a complete valid JSON value V that is not a
\* top-level number, followed by any bytes X, succeeds and returns the
\* same tree as parsing V alone.
C6TrailingAfterClosedValue ==
    (res.call = "Parse" /\ ~res.refused) =>
        \A k \in Prefixes :
            ~IsNumberText(SubSeq(Text, 1, k)) =>
                ParsedOk /\ TreeOf(heap, root) = TreeOfParse(SubSeq(Text, 1, k))

\* A text made of a closed value and then bytes that are not whitespace
\* was parsed into the tree of the closed value.
C6Witness ==
    /\ res.call = "Parse" /\ ParsedOk
    /\ \E k \in Prefixes :
          /\ ~IsNumberText(SubSeq(Text, 1, k))
          /\ Text[k + 1] > ch.sp
          /\ TreeOf(heap, root) = TreeOfParse(SubSeq(Text, 1, k))
          /\ TreeOf(heap, root).kind \in {cJSON_Array, cJSON_Object}

(***************************************************************************)
(* Properties of the round trip through the serializer and the parser.     *)
(***************************************************************************)
\* The double d is finite and has no fractional part.
IsIntegerValued(d) ==
    d.cls = "fin" /\ (d.dig = <<>> \/ d.exp >= Len(d.dig) - 1)

RECURSIVE AllFinite(_)
AllFinite(t) ==
    /\ t.kind = cJSON_Number => t.num.cls = "fin"
    /\ \A i \in 1..Len(t.kids) : AllFinite(t.kids[i])

\* Structural equality of two trees: the same kind at every node, the same
\* keys in the same order, equal strings, and equal numbers where the
\* number of the first tree is integer-valued.
RECURSIVE StructEq(_, _)
StructEq(t, u) ==
    /\ t.kind = u.kind
    /\ t.key = u.key
    /\ t.kind = cJSON_String => t.str = u.str
    /\ (t.kind = cJSON_Number /\ IsIntegerValued(t.num)) => t.num = u.num
    /\ Len(t.kids) = Len(u.kids)
    /\ \A i \in 1..Len(t.kids) : StructEq(t.kids[i], u.kids[i])

\* C1: for every tree built with the cJSON_Create* constructors,
\* cJSON_AddItemToArray and cJSON_AddItemToObject that holds no non-finite
\* number, parsing the printed tree gives a structurally equal tree.
C1RoundTrip ==
    (res.call = "ParseText" /\ AllFinite(TreeOf(heap, root))) =>
        /\ res.dup # NULL
        /\ StructEq(TreeOf(heap, root), TreeOf(heap, res.dup))

(***************************************************************************)
(* Properties of the builder.                                              *)
(***************************************************************************)
\* The step is a successful cJSON_AddItemToArray or cJSON_AddItemToObject
\* call that attached the item the client held.
AddStep ==
    /\ res.ret # NULL
    /\ res'.call \in {"AddItemToArray", "AddItemToObject", "AddItemToObjectCS"}
    /\ res'.ret = NULL /\ res'.got = res.ret /\ res'.arg # NULL

\* The fields of a node other than its link to the next sibling.
Unlinked(nd) == [nd EXCEPT !.next = NULL]

\* x.next == y implies y.prev == x, for every node of the heap.
LinksConsistent(H) ==
    \A x \in Nodes(H) :
        H.node[x].next # NULL => H.node[H.node[x].next].prev = x

\* C11: appending keeps insertion order.  Every successful
\* cJSON_AddItemToArray / cJSON_AddItemToObject call makes the new item the
\* last child of its container: the container's children are the children
\* it had, in the same order and unchanged, followed by the new item; the
\* children of every other node are what they were; and the next/prev
\* links are consistent (x.next = y implies y.prev = x).  By induction the
\* children of a container are the attached items in call order.
C11AppendKeepsOrder ==
    [][AddStep =>
          /\ Children(heap', res'.arg)
                = Append(Children(heap, res'.arg), res.ret)
          /\ \A c \in Nodes(heap) \ {res'.arg} :
                Children(heap', c) = Children(heap, c)
          /\ \A i \in 1..Len(Children(heap, res'.arg)) :
                Unlinked(heap'.node[Children(heap, res'.arg)[i]])
                   = Unlinked(heap.node[Children(heap, res'.arg)[i]])
          /\ heap'.node[res.ret].next = NULL
          /\ LinksConsistent(heap')]_vars

\* An item was attached behind two earlier children.
C11Witness ==
    /\ res.call \in {"AddItemToArray", "AddItemToObject"}
    /\ res.arg # NULL
    /\ Len(Children(heap, res.arg)) >= 3
    /\ Children(heap, res.arg)[Len(Children(heap, res.arg))] = res.got

\* The step is a call of one of the cJSON_Add*ToObject helpers.
HelpStep == res'.call \in HelperCalls /\ (res' # res \/ heap' # heap)

\* The kinds of the node each helper makes.
HelperKinds ==
    [AddNullToObject |-> {cJSON_NULL}, AddTrueToObject |-> {cJSON_True},
     AddFalseToObject |-> {cJSON_False},
     AddBoolToObject |-> {cJSON_True, cJSON_False},
     AddNumberToObject |-> {cJSON_Number}, AddStringToObject |-> {cJSON_String},
     AddRawToObject |-> {cJSON_Raw}, AddObjectToObject |-> {cJSON_Object},
     AddArrayToObject |-> {cJSON_Array}]

\* C12: every create-and-attach helper either returns the new node, which
\* is then the last member of the object under a copy of the given name,
\* the earlier members being as they were; or returns NULL, and then the
\* node it made is freed again (the live blocks are those from before the
\* call, and nothing was freed twice), no node's children changed, and the
\* object or the name was NULL or an allocation was refused.  With an
\* object, a name and no refused allocation the helper succeeds.
C12HelperAttachesOrFrees ==
    [][HelpStep =>
          /\ res'.got # NULL =>
                /\ res'.arg # NULL /\ ~res'.key.null
                /\ res'.got \notin heap.live /\ res'.got \in Nodes(heap')
                /\ KindOf(heap'.node[res'.got].type) \in HelperKinds[res'.call]
                /\ Children(heap', res'.arg)
                      = Append(Children(heap, res'.arg), res'.got)
                /\ KeyOf(heap', res'.got) = TextPtr(CStr(res'.key.bytes))
                /\ ~HasFlag(heap'.node[res'.got].type, cJSON_StringIsConst)
                /\ heap'.live \ {res'.got, heap'.node[res'.got].string,
                                 heap'.node[res'.got].valuestring} = heap.live
          /\ res'.got = NULL =>
                /\ heap'.live = heap.live
                /\ \A c \in Nodes(heap) : Children(heap', c) = Children(heap, c)
                /\ res'.arg = NULL \/ res'.key.null \/ res'.refused
          /\ ~heap'.bad
          /\ (res'.arg # NULL /\ ~res'.key.null /\ ~res'.refused)
                => res'.got # NULL]_vars

\* A helper made its node, was refused the copy of the key, and returned
\* NULL; the object had a member already.
C12Witness ==
    /\ res.call \in HelperCalls
    /\ res.got = NULL /\ res.refused /\ res.reqs >= 1
    /\ res.arg # NULL /\ ~res.key.null
    /\ Len(Children(heap, res.arg)) >= 1

\* A helper attached its node behind an earlier member.
C12Attached ==
    /\ res.call \in HelperCalls
    /\ res.got # NULL
    /\ Len(Children(heap, res.arg)) >= 2

(***************************************************************************)
(* Properties of the serializer.  The escaping is restated from a table of *)
(* the short escapes and the sixteen hexadecimal digits.                   *)
(***************************************************************************)
\* The bytes that have a two-character escape, and its second character.
ShortEscapes ==
    <<<<ch.quote, ch.quote>>, <<ch.bslash, ch.bslash>>, <<ch.bsp, ch.b>>,
      <<ch.ff, ch.f>>, <<ch.lf, ch.n>>, <<ch.cr, ch.r>>, <<ch.tab, ch.t>>>>

HexDigits == Bytes("0123456789abcdef")

RefEscapeByte(c) ==
    IF \E i \in 1..Len(ShortEscapes) : ShortEscapes[i][1] = c
    THEN <<ch.bslash,
           ShortEscapes[CHOOSE i \in 1..Len(ShortEscapes) :
                           ShortEscapes[i][1] = c][2]>>
    ELSE IF c < ch.sp
    THEN <<ch.bslash, ch.u, ch.d0, ch.d0,
           HexDigits[(c \div 16) + 1], HexDigits[(c % 16) + 1]>>
    ELSE <<c>>

RECURSIVE RefEscape(_)
RefEscape(str) ==
    IF str = <<>> THEN <<>>
    ELSE RefEscapeByte(Head(str)) \o RefEscape(Tail(str))

\* cJSON_PrintUnformatted(root) returned a text.
Printed == res.call = "PrintRoot" /\ res.got # NULL /\ root # NULL

\* The root is a String that has a text.
RootIsText ==
    /\ root # NULL
    /\ KindOf(heap.node[root].type) = cJSON_String
    /\ heap.node[root].valuestring # NULL

RootText == CStr(heap.blk[heap.node[root].valuestring])

\* C13: a String is printed as a quote, its bytes escaped -- the quote, the
\* backslash and \b \f \n \r \t by their two-character escapes, every other
\* byte below 0x20 as \u00XX, every byte from 0x20 on as it is -- and a
\* quote; no text the serializer returns holds a raw byte below 0x20 before
\* its terminator; the tab and the quote give "\t\"".
C13StringEscaping ==
    Printed =>
        /\ RootIsText =>
              res.out = <<ch.quote>> \o RefEscape(RootText)
                           \o <<ch.quote, ch.nul>>
        /\ \A i \in 1..(Len(res.out) - 1) : res.out[i] >= ch.sp
        /\ (RootIsText /\ RootText = <<ch.tab, ch.quote>>) =>
              res.out = Bytes("\"\\t\\\"\"") \o <<ch.nul>>

\* The string made of a tab and a quote was printed.
C13Witness ==
    /\ Printed /\ RootIsText
    /\ RootText = <<ch.tab, ch.quote>>
    /\ res.out = Bytes("\"\\t\\\"\"") \o <<ch.nul>>

\* A string with a control byte that has no short escape was printed.
C13HexEscaped ==
    /\ Printed /\ RootIsText
    /\ \E i \in 1..Len(RootText) : RootText[i] = ch.sp - 1
    /\ \E i \in 1..Len(res.out) : res.out[i] = ch.u

\* The printed text holds a '.' or an exponent.
HasFraction(text) ==
    \E i \in 1..Len(text) : text[i] \in {ch.dot, ch.e}

\* The text is an integer: digits after an optional minus sign.
IsIntegerText(text) ==
    /\ text # <<>> /\ text # <<ch.minus>>
    /\ \A i \in 1..Len(text) : IsDigit(text[i]) \/ (i = 1 /\ text[i] = ch.minus)

RootIsNumber == root # NULL /\ KindOf(heap.node[root].type) = cJSON_Number

\* C14: a Number whose double equals its integer view is printed as an
\* integer, without fraction or exponent; every other finite number is
\* printed with a fraction or an exponent, not as an integer; NaN and the
\* infinities are printed as null.
C14NumberText ==
    (Printed /\ RootIsNumber) =>
        LET d == heap.node[root].valuedouble
            vi == heap.node[root].valueint
            text == CStr(res.out)
        IN  /\ d.cls # "fin" => text = Bytes("null")
            /\ (d.cls = "fin" /\ EqualsIntView(d, vi)) => IsIntegerText(text)
            /\ (d.cls = "fin" /\ ~EqualsIntView(d, vi)) => HasFraction(text)

(***************************************************************************)
(* Properties of the allocator hooks.                                      *)
(***************************************************************************)
\* C15: every block the library releases was obtained from the allocate
\* hook of the current pair: a block that a step frees (through
\* global_free, the free hook) came from global_malloc, the allocate hook
\* that was active when it was made and still is.
C15HooksPaired ==
    [][\A p \in heap.live \ heap'.live : heap.via[p] = heap.malloc_fn]_vars

\* The pair a cJSON_InitHooks argument stands for.
PairOf(hooks) ==
    IF hooks.null \/ hooks.malloc_fn = "none"
    THEN (IF hooks.null \/ hooks.free_fn = "none"
          THEN <<"malloc", "free">> ELSE <<"malloc", hooks.free_fn>>)
    ELSE (IF hooks.free_fn = "none"
          THEN <<hooks.malloc_fn, "free">>
          ELSE <<hooks.malloc_fn, hooks.free_fn>>)

\* C16: the active pair is malloc/free before any cJSON_InitHooks call, and
\* after the calls it is what the last call's argument stands for, whatever
\* the earlier calls installed: both defaults for NULL, and for a record
\* each function it supplies and the default for each it leaves unset.
C16LastCallDecides ==
    <<heap.malloc_fn, heap.free_fn>>
       = IF res.inits = 0 THEN <<"malloc", "free">> ELSE PairOf(res.hooks)

\* A second call left malloc_fn unset after a first call had installed
\* my_malloc (a block came from it), and the allocate hook is malloc again.
C16Witness ==
    /\ res.inits = 2
    /\ res.hooks = Hooks("none", "my_free")
    /\ \E p \in 1..heap.cnt : heap.via[p] = "my_malloc"
    /\ heap.malloc_fn = "malloc" /\ heap.free_fn = "my_free"

(***************************************************************************)
(* Properties of cJSON_Delete.  What a tree owns is read off the heap: its *)
(* nodes, the value strings and children of the nodes that are not         *)
(* references, and the keys that are not constant.                         *)
(***************************************************************************)
RECURSIVE OwnedBy(_, _)
OwnedBy(H, item) ==
    IF item = NULL THEN {}
    ELSE {item}
         \cup (IF HasFlag(H.node[item].type, cJSON_IsReference) THEN {}
               ELSE ({H.node[item].valuestring} \ {NULL})
                    \cup OwnedBy(H, H.node[item].child))
         \cup (IF HasFlag(H.node[item].type, cJSON_StringIsConst) THEN {}
               ELSE {H.node[item].string} \ {NULL})
         \cup OwnedBy(H, H.node[item].next)

\* C17: cJSON_Delete(item) frees what the tree owns, each block once: the
\* blocks that are live afterwards are the earlier ones less the nodes of
\* the tree, the value strings of its nodes that are not references and
\* its keys that are not constant; all of these were live, and no block is
\* freed that is not live (none twice, no string literal, nothing reached
\* through a reference).  cJSON_Delete(NULL) changes nothing.
C17DeleteFreesOwned ==
    [][res'.call = "Delete" =>
          /\ OwnedBy(heap, res'.arg) \subseteq heap.live
          /\ heap'.live = heap.live \ OwnedBy(heap, res'.arg)
          /\ ~heap'.bad
          /\ res'.arg = NULL => heap' = heap]_vars

\* A tree was deleted that had a member with a constant key and a
\* reference string; the node was freed and the two literals were not.
C17Witness ==
    /\ res.call = "Delete" /\ res.arg # NULL /\ heap.live = {}
    /\ \E p \in 1..heap.cnt :
          /\ heap.rel[p] # ""
          /\ HasFlag(heap.node[p].type, cJSON_StringIsConst)
          /\ HasFlag(heap.node[p].type, cJSON_IsReference)
          /\ heap.node[p].valuestring # NULL /\ heap.node[p].string # NULL
          /\ heap.rel[heap.node[p].valuestring] = ""
          /\ heap.rel[heap.node[p].string] = ""

\* A reference to the client's tree was deleted, and the tree is still
\* there.
C17ReferenceDeleted ==
    /\ res.call = "Delete" /\ res.arg # NULL
    /\ root # NULL /\ root \in heap.live
    /\ heap.node[res.arg].child = root
    /\ heap.rel[res.arg] # ""

\* A tree with a key of its own and a value string of its own was deleted.
C17OwnedStrings ==
    /\ res.call = "Delete" /\ res.arg # NULL /\ heap.live = {}
    /\ \E p \in 1..heap.cnt :
          /\ heap.node[p].valuestring # NULL /\ heap.node[p].string # NULL
          /\ heap.rel[heap.node[p].valuestring] # ""
          /\ heap.rel[heap.node[p].string] # ""

(***************************************************************************)
(* Properties of the kind predicates.                                      *)
(***************************************************************************)
\* What the ten predicates answer for a node whose kind bits are k.
KindAnswers(k) ==
    [IsInvalid |-> k = cJSON_Invalid, IsFalse |-> k = cJSON_False,
     IsTrue |-> k = cJSON_True, IsBool |-> k \in {cJSON_True, cJSON_False},
     IsNull |-> k = cJSON_NULL, IsNumber |-> k = cJSON_Number,
     IsString |-> k = cJSON_String, IsArray |-> k = cJSON_Array,
     IsObject |-> k = cJSON_Object, IsRaw |-> k = cJSON_Raw]

\* The type of a node without its two flags.
KindBits(type) ==
    type - (IF HasFlag(type, cJSON_IsReference) THEN cJSON_IsReference ELSE 0)
         - (IF HasFlag(type, cJSON_StringIsConst) THEN cJSON_StringIsConst
            ELSE 0)

\* C18: each of the ten kind predicates answers false for NULL, and for a
\* node its answer is the one for the node's kind bits, whatever the
\* is-reference and string-is-constant flags are.
C18KindPredicates ==
    res.call = "Classify" =>
        IF res.arg = NULL
        THEN \A f \in DOMAIN res.preds : ~res.preds[f]
        ELSE res.preds = KindAnswers(KindBits(heap.node[res.arg].type))

(***************************************************************************)
(* Properties of the constructors.                                         *)
(***************************************************************************)
\* The type a constructor call gives its node; res.num tells the two
\* booleans apart.
CreatedType ==
    [CreateNull |-> cJSON_NULL,
     CreateBool |-> IF res.num = Zero THEN cJSON_False ELSE cJSON_True,
     CreateNumber |-> cJSON_Number, CreateString |-> cJSON_String,
     CreateRaw |-> cJSON_Raw, CreateArray |-> cJSON_Array,
     CreateObject |-> cJSON_Object]

\* The blocks the last call obtained.
NewBlocks == (heap.cnt - res.reqs + 1)..heap.cnt

\* The node a constructor returned is fully built.
FullyBuilt(nd) ==
    /\ nd.type = CreatedType[res.call]
    /\ nd.next = NULL /\ nd.prev = NULL /\ nd.child = NULL /\ nd.string = NULL
    /\ res.call = "CreateNumber" => nd.valuedouble = res.num
    /\ IF res.call \in {"CreateString", "CreateRaw"} /\ ~res.text.null
       THEN /\ nd.valuestring \in heap.live
            /\ CStr(heap.blk[nd.valuestring]) = CStr(res.text.bytes)
       ELSE nd.valuestring = NULL

\* C19: a constructor returns a fully built node of its kind -- no
\* siblings, no key, no flags, and for a String or Raw given a text a copy
\* of the text -- when no allocation was refused; when one was refused it
\* returns NULL and none of the blocks it obtained is still allocated.
C19ConstructorsAllOrNothing ==
    res.call \in CreateCalls =>
        /\ ~heap.bad
        /\ IF res.refused
           THEN res.got = NULL /\ NewBlocks \cap heap.live = {}
           ELSE res.got # NULL /\ FullyBuilt(heap.node[res.got])

(***************************************************************************)
(* Properties of cJSON_PrintUnformatted.                                   *)
(***************************************************************************)
\* The nodes of the tree at item: the item, its siblings and their
\* descendants.
RECURSIVE TreeNodes(_, _)
TreeNodes(H, item) ==
    IF item = NULL THEN {}
    ELSE {item} \cup TreeNodes(H, H.node[item].child)
                \cup TreeNodes(H, H.node[item].next)

ValidKinds ==
    {cJSON_False, cJSON_True, cJSON_NULL, cJSON_Number, cJSON_String,
     cJSON_Array, cJSON_Object, cJSON_Raw}

\* The item cannot be printed: it is NULL or a node of it has no valid kind.
Unprintable(H, item) ==
    \/ item = NULL
    \/ \E p \in {item} \cup TreeNodes(H, H.node[item].child) :
          KindOf(H.node[p].type) \notin ValidKinds

\* No space, tab, line feed or carriage return from index i on is outside
\* a string, inStr telling whether index i is inside one.
RECURSIVE Compact(_, _, _)
Compact(text, i, inStr) ==
    IF i > Len(text) THEN TRUE
    ELSE IF inStr
    THEN (IF text[i] = ch.bslash THEN Compact(text, i + 2, TRUE)
          ELSE Compact(text, i + 1, text[i] # ch.quote))
    ELSE /\ text[i] \notin {ch.sp, ch.tab, ch.lf, ch.cr}
         /\ Compact(text, i + 1, text[i] = ch.quote)

\* The item of the last print call.
PrintedItem == IF res.call = "PrintNull" THEN NULL ELSE root

\* C20: cJSON_PrintUnformatted returns NULL exactly when an allocation of
\* the buffer (the first one or one made to grow it) was refused, the item
\* is NULL or a node has no valid kind; every buffer the call obtained is
\* then freed again, each once.  Otherwise it returns a text that ends
\* with the only NUL in it and has no whitespace outside its strings; the
\* buffers it outgrew are freed.
C20PrintFailsClean ==
    res.call \in {"PrintRoot", "PrintNull"} =>
        /\ ~heap.bad
        /\ NewBlocks \cap heap.live = {}
        /\ res.got = NULL <=> (res.refused \/ Unprintable(heap, PrintedItem))
        /\ res.got = NULL => res.out = <<>>
        /\ res.got # NULL =>
              /\ res.out # <<>>
              /\ strlen(res.out) = Len(res.out) - 1
              /\ res.out[Len(res.out)] = ch.nul
              /\ Compact(CStr(res.out), 1, FALSE)

\* The buffer had to grow, the allocation was refused, and the call
\* returned NULL with the first buffer freed.
C20Witness ==
    /\ res.call = "PrintRoot" /\ res.got = NULL
    /\ res.refused /\ res.reqs = 1
    /\ heap.rel[heap.cnt] # ""

\* A tree with a node of no valid kind under its root was not printed.
C20InvalidKind ==
    /\ res.call = "PrintRoot" /\ res.got = NULL /\ ~res.refused
    /\ KindOf(heap.node[root].type) \in ValidKinds

\* cJSON_PrintUnformatted(NULL) returned NULL and freed its buffer.
C20NullItem ==
    /\ res.call = "PrintNull" /\ res.got = NULL /\ ~res.refused
    /\ res.reqs = 1 /\ heap.rel[heap.cnt] # ""

\* A text was printed after the buffer grew; a text was printed that has a
\* space inside a string.
C20Grown == res.call = "PrintRoot" /\ res.got # NULL /\ res.reqs = 2

C20SpaceInString ==
    /\ res.call = "PrintRoot" /\ res.got # NULL
    /\ \E i \in 1..Len(res.out) : res.out[i] = ch.sp
    /\ \E i \in 1..Len(res.out) : res.out[i] = ch.comma

(***************************************************************************)
(* A client that appends any item it has a pointer to: the item it holds   *)
(* or an item that is already in its tree.  add_item_to_array looks at     *)
(* neither item->prev nor item->next, nor does it compare item with array. *)
(***************************************************************************)

\* The nodes reached from c by at most n steps along next.
RECURSIVE Walk(_, _, _)
Walk(H, c, n) ==
    IF c = NULL \/ n = 0 THEN <<>>
    ELSE <<c>> \o Walk(H, H.node[c].next, n - 1)

\* The child sequence of node p, cut off after one step more than there are
\* blocks (a longer walk has come round).
Kids(H, p) == Walk(H, H.node[p].child, H.cnt + 1)

KidSet(H, p) == {Kids(H, p)[i] : i \in 1..Len(Kids(H, p))}

\* The nodes at most n levels below the nodes of S.
RECURSIVE Below(_, _, _)
Below(H, S, n) ==
    IF n = 0 THEN S
    ELSE Below(H, S \cup UNION {KidSet(H, q) : q \in S}, n - 1)

\* Every node is in the child sequence of at most one parent, at most once,
\* and no node is its own ancestor.
StrictTree(H) ==
    /\ \A p \in Nodes(H) :
          /\ Len(Kids(H, p)) <= H.cnt
          /\ \A i, j \in 1..Len(Kids(H, p)) :
                Kids(H, p)[i] = Kids(H, p)[j] => i = j
          /\ p \notin Below(H, KidSet(H, p), H.cnt)
    /\ \A c \in Nodes(H) :
          Cardinality({p \in Nodes(H) : c \in KidSet(H, p)}) <= 1

\* cJSON_AddItemToArray(array, item): array an array the client has a pointer
\* to, item any item it has a pointer to.  The client stops building once
\* the links are no tree any more (the next append would not return).
AddAnyToArray ==
    /\ Building /\ StrictTree(heap)
    /\ \E array \in {p \in Nodes(heap) : KindOf(heap.node[p].type) = cJSON_Array},
          item \in Nodes(heap) :
          LET r == cJSON_AddItemToArray(heap, array, item) IN
          /\ r.ok
          /\ heap' = r.H
          /\ res' = [Fresh EXCEPT !.call = "AddItemToArray",
                                !.ret = IF item = res.ret THEN NULL ELSE res.ret,
                                !.got = item, !.arg = array]
          /\ UNCHANGED <<mem, typed, root, global_error>>

NextGraft ==
    \/ CreateNull
    \/ CreateArray
    \/ Adopt
    \/ AddAnyToArray

SpecGraft == InitParse /\ [][NextGraft]_vars

\* C22: after any sequence of create and append calls the links form a
\* strict tree: every node is in the child sequence of at most one parent,
\* appears there at most once, and no node is its own ancestor.
C22StrictTree == StrictTree(heap)

(***************************************************************************)
(* A client that prints arrays of long strings of control bytes, each of   *)
(* which takes six bytes in the text, so that the text outgrows the        *)
(* buffer more than once.                                                  *)
(***************************************************************************)
MaxGrowBlocks == 7
GrowLen == 44

GrowTexts == {TextPtr([i \in 1..GrowLen |-> 1]), TextPtr(Bytes("a"))}

\* item = cJSON_CreateString(text), the allocator not refusing
CreateGrowString ==
    /\ Building /\ res.ret = NULL /\ heap.cnt < MaxGrowBlocks
    /\ \E string \in GrowTexts :
          Created("CreateString", cJSON_CreateString(heap, string), 0, string,
                  Zero)

NextGrow ==
    \/ CreateArray
    \/ CreateGrowString
    \/ Adopt
    \/ AddItemToArray
    \/ PrintRoot

SpecGrow == InitParse /\ [][NextGrow]_vars

PrintCalls == {"PrintRoot", "PrintDup", "PrintNull"}

\* C23 as stated: the buffer starts with 256 bytes and every replacement
\* of the buffer has exactly twice the capacity of the one before, the bytes
\* below the cursor being kept.
C23CapacityDoubles ==
    res.call \in PrintCalls =>
        \A i \in 1..Len(res.grown) :
            /\ res.grown[i].was =
                   (IF i = 1 THEN PrintBufferSize ELSE res.grown[i - 1].now)
            /\ res.grown[i].now = 2 * res.grown[i].was
            /\ res.grown[i].kept

\* C23: the buffer starts with 256 bytes; it is replaced when the size
\* asked for, the cursor and one terminator together exceed the capacity,
\* and the new capacity is twice that sum (more than twice the capacity
\* before); the bytes below the cursor are kept.
C23CapacityTwiceNeeded ==
    res.call \in PrintCalls =>
        \A i \in 1..Len(res.grown) :
            /\ res.grown[i].was =
                   (IF i = 1 THEN PrintBufferSize ELSE res.grown[i - 1].now)
            /\ res.grown[i].need > res.grown[i].was
            /\ res.grown[i].now = 2 * res.grown[i].need
            /\ res.grown[i].now > 2 * res.grown[i].was
            /\ res.grown[i].kept

\* A text printed after the buffer was replaced twice, with bytes below the
\* cursor both times.
C23Witness ==
    /\ res.call = "PrintRoot" /\ res.got # NULL
    /\ Len(res.grown) = 2
    /\ res.grown[1].off > 0 /\ res.grown[2].off > res.grown[1].was

\* C26: while a tree is printed every byte, each terminator included, is
\* written below the capacity of the buffer, and every write leaves offset
\* below the capacity.
C26WritesInsideBuffer ==
    res.call \in PrintCalls => ~res.povf /\ ~res.edge

\* A printed text longer than the first buffer, the buffer replaced when
\* bytes were already in it.
C26Witness ==
    /\ res.call = "PrintRoot" /\ res.got # NULL
    /\ Len(res.out) > PrintBufferSize
    /\ \E i \in 1..Len(res.grown) : res.grown[i].off > 0
    /\ ~res.povf /\ ~res.edge

(***************************************************************************)
(* A client that parses one text after another: it deletes the tree it got *)
(* and parses the next text, reading cJSON_GetErrorPtr() after each call.  *)
(***************************************************************************)
MaxRounds == 2

\* cJSON_Delete(root), and the client's memory is empty again
Discard ==
    /\ Parsed /\ res.call # "ParseWithLength"
    /\ res.round < MaxRounds
    /\ heap' = cJSON_Delete(heap, root)
    /\ root' = NULL
    /\ mem' = <<>>
    /\ typed' = 0
    /\ res' = [Idle EXCEPT !.round = res.round + 1]
    /\ UNCHANGED global_error

\* The texts the client parses in turn: a number, a string, no value, an
\* array that is not closed.
AgainTexts == {Bytes("1"), Bytes("\"a\""), Bytes("q"), Bytes("[1")}

\* The client copies the next text into its memory.
LoadText ==
    /\ res.call = "none" /\ mem = <<>>
    /\ \E s \in AgainTexts : mem' = s
    /\ UNCHANGED <<typed, heap, root, res, global_error>>

NextAgain ==
    \/ LoadText
    \/ Parse
    \/ ParseNull
    \/ Discard

SpecAgain == InitParse /\ [][NextAgain]_vars

\* The argument of the parse call the client made last.
ParsedText ==
    IF res.call = "ParseNull" THEN NullText ELSE TextPtr(Append(mem, ch.nul))

\* C24: every parse call overwrites the slot: after a successful parse
\* cJSON_GetErrorPtr() returns NULL whatever the slot held before, and
\* after a failed parse it returns what that same call leaves in a process
\* that made no earlier call.
C24SlotOfLatestCall ==
    res.call \in {"Parse", "ParseNull"} /\ Parsed =>
        /\ res.ret # NULL => cJSON_GetErrorPtr(global_error) = NoError
        /\ res.ret = NULL =>
              \E failAt \in 0..MaxFail :
                  /\ cJSON_Parse(ParsedText, EmptyHeap(failAt)).ret = NULL
                  /\ cJSON_Parse(ParsedText, EmptyHeap(failAt)).b.err
                         = cJSON_GetErrorPtr(global_error)

\* A successful parse right after a failed one: the slot held a message on
\* entry and holds none now.
C24Witness ==
    /\ res.call = "Parse" /\ Parsed /\ res.round > 0
    /\ res.before # NoError
    /\ res.ret # NULL
    /\ global_error = NoError

\* A failed parse after a failed one, the slot holding another message than
\* on entry.
C24FailedAgain ==
    /\ res.call = "Parse" /\ Parsed /\ res.round > 0
    /\ res.before # NoError
    /\ res.ret = NULL
    /\ global_error \notin {NoError, res.before}

(***************************************************************************)
(* Two threads that each call cJSON_Parse and then cJSON_GetErrorPtr, with *)
(* no lock around the two calls.  A call takes three steps a thread can be *)
(* overtaken between: the store of NULL on entry, the rest of the call     *)
(* (which stores a message when it fails) and the read of the slot.        *)
(* res.writer is the thread that stored to the slot last.                  *)
(***************************************************************************)
MaxRaceFail == 1

RaceTexts ==
    {NullText, TextPtr(Append(Bytes("1"), ch.nul)),
     TextPtr(Append(Bytes("q"), ch.nul)), TextPtr(Append(Bytes("[1"), ch.nul))}

\* Thread t enters cJSON_Parse(text): global_error = NULL
Enter(t) ==
    /\ res.call \in {"none", "Race"}
    /\ res.thr[t].pc = "idle"
    /\ \E text \in RaceTexts :
          res' = [res EXCEPT !.call = "Race", !.writer = t,
                             !.thr[t].pc = "entered", !.thr[t].text = text]
    /\ global_error' = ResetError(global_error)
    /\ UNCHANGED <<mem, typed, heap, root>>

\* The state after the call of thread t answered r: the slot holds the
\* message the call stored, if it stored one.
Ran(t, r) ==
    /\ heap' = [r.b.H EXCEPT !.failAt = 0]
    /\ global_error' = IF r.b.err # NoError THEN r.b.err ELSE global_error
    /\ res' = [res EXCEPT !.writer = IF r.b.err # NoError THEN t ELSE @,
                          !.thr[t].pc = "returned",
                          !.thr[t].ret = r.ret,
                          !.thr[t].err = r.b.err]
    /\ UNCHANGED <<mem, typed, root>>

\* Thread t runs the rest of its call and returns from it
Run(t) ==
    /\ res.thr[t].pc = "entered"
    /\ \E failAt \in 0..MaxRaceFail :
          Ran(t, cJSON_Parse(res.thr[t].text, [heap EXCEPT !.failAt = failAt]))

\* Thread t calls cJSON_GetErrorPtr()
Read(t) ==
    /\ res.thr[t].pc = "returned"
    /\ res' = [res EXCEPT !.thr[t].pc = "read",
                          !.thr[t].got = cJSON_GetErrorPtr(global_error),
                          !.thr[t].foreign = (res.writer # t)]
    /\ UNCHANGED <<mem, typed, heap, root, global_error>>

NextRace ==
    \/ \E t \in Threads : Enter(t)
    \/ \E t \in Threads : Run(t)
    \/ \E t \in Threads : Read(t)

SpecRace == InitParse /\ [][NextRace]_vars

\* What thread t can find in the slot when thread u stored to it last: NULL
\* from u's entry, or the message u's call stored.
StoredBy(u) == {NoError, res.thr[u].err}

\* C25: a thread whose parse failed can read, instead of the error of its
\* own call, what the other thread's parse stored (its error, or the NULL
\* of its entry); it reads anything but its own call's error only when the
\* other thread stored to the slot in between, and then it reads that
\* store.
C25ForeignError ==
    \A t \in Threads :
        res.thr[t].pc = "read" /\ res.thr[t].ret = NULL =>
            \/ ~res.thr[t].foreign /\ res.thr[t].got = res.thr[t].err
            \/ /\ res.thr[t].foreign
               /\ \E u \in Threads \ {t} : res.thr[t].got \in StoredBy(u)

\* A thread whose parse failed with a message has read the message of the
\* other thread's call.
C25Witness ==
    \E t \in Threads, u \in Threads :
        /\ u # t
        /\ res.thr[t].pc = "read" /\ res.thr[t].ret = NULL
        /\ res.thr[t].err # NoError
        /\ res.thr[t].got = res.thr[u].err
        /\ res.thr[t].got \notin {NoError, res.thr[t].err}

\* A thread whose parse failed with a message has read the NULL of the
\* other thread's entry.
C25ReadsReset ==
    \E t \in Threads, u \in Threads :
        /\ u # t
        /\ res.thr[t].pc = "read" /\ res.thr[t].ret = NULL
        /\ res.thr[t].err # NoError
        /\ res.thr[t].got = NoError
        /\ res.thr[u].pc = "entered"

\* C27: the second pass of parse_string stops at the closing quote the
\* first pass found, reads nothing past it and writes no more than the
\* len + 1 bytes of the block it allocated.
C27CopyInsideScan ==
    res.call \in {"Parse", "ParseWithLength"} => ~res.past /\ ~res.ovf

(***************************************************************************)
(* The file agent: repair_html.  The model that drives the agent writes    *)
(* '?' where the markup has '<' or '>'; repair_html decides for each '?'   *)
(* from the bytes before and after it.                                     *)
(***************************************************************************)
IsLetter(c) == (c >= ch.a /\ c <= 122) \/ (c >= ch.A /\ c <= ch.Z)

\* The test `closing` of repair_html on the byte before the '?'
ClosingContext(prev) ==
    \/ IsLetter(prev)
    \/ (prev >= ch.d0 /\ prev <= ch.d9)
    \/ prev \in {ch.quote, 39, ch.slash, ch.minus, ch.rbrack}

\* A repair_html that looks at the byte after the '?' first.
RepairOpeningFirst(prev, next) ==
    IF next = ch.slash \/ next = 33 \/ IsLetter(next) THEN 60
    ELSE IF ClosingContext(prev) THEN 62
    ELSE ch.qmark

\* What repair_html writes for a '?' between the bytes prev and next (0
\* where the text begins or ends).
RepairByte(prev, next) ==
    IF next = ch.slash THEN 60
    ELSE IF next = 33 THEN 60
    ELSE IF ClosingContext(prev) THEN 62
    ELSE IF IsLetter(next) THEN 60
    ELSE ch.qmark

\* repair_html(input), the bytes of the string it returns
repair_html(input) ==
    [i \in 1..Len(input) |->
        IF input[i] # ch.qmark THEN input[i]
        ELSE RepairByte(IF i > 1 THEN input[i - 1] ELSE ch.nul,
                        IF i < Len(input) THEN input[i + 1] ELSE ch.nul)]

\* What the model makes of a markup: every '<' and '>' becomes '?'.
Mask(markup) ==
    [i \in 1..Len(markup) |->
        IF markup[i] \in {60, 62} THEN ch.qmark ELSE markup[i]]

\* The markups: up to MaxElems pieces, a piece being an opening tag (with
\* or without a quoted attribute), a closing tag, a self-closing tag, a
\* DOCTYPE, a comment, or an opening tag, a text and its closing tag.
MaxElems == 2

TagPieces ==
    {Bytes("<html>"), Bytes("</html>"), Bytes("<br/>"), Bytes("<h1>"),
     Bytes("<!DOCTYPE html>"), Bytes("<!-- comment -->"),
     Bytes("<a href=\"#\">"), Bytes("<div class=\"test\">")}

TextContents ==
    {Bytes("Hello"), Bytes("Hello World"), Bytes("alert('hi');"),
     Bytes("body { color: red; }"), Bytes("1-2"), Bytes("/bin"), Bytes("!")}

TextPieces == {Bytes("<p>") \o t \o Bytes("</p>") : t \in TextContents}

Pieces == TagPieces \cup TextPieces

RECURSIVE MarkupsOf(_)
MarkupsOf(n) ==
    IF n = 0 THEN {<<>>}
    ELSE MarkupsOf(n - 1) \cup {m \o p : m \in MarkupsOf(n - 1), p \in Pieces}

InitRepair ==
    /\ mem \in MarkupsOf(MaxElems) \ {<<>>}
    /\ typed = 0
    /\ heap = EmptyHeap(0)
    /\ root = NULL
    /\ res = Idle
    /\ global_error = NoError

\* The model writes the markup with '?' for '<' and '>'.
MaskMarkup ==
    /\ res.call = "none"
    /\ res' = [Idle EXCEPT !.call = "Mask", !.out = Mask(mem)]
    /\ UNCHANGED <<mem, typed, heap, root, global_error>>

\* fixed = repair_html(content)
RepairHtml ==
    /\ res.call = "Mask"
    /\ res' = [res EXCEPT !.call = "Repair", !.out2 = repair_html(res.out)]
    /\ UNCHANGED <<mem, typed, heap, root, global_error>>

NextRepair ==
    \/ MaskMarkup
    \/ RepairHtml

SpecRepair == InitRepair /\ [][NextRepair]_vars

PlainTextStarts(markup) ==
    \A i \in 1..(Len(markup) - 1) :
        markup[i] = 62 => markup[i + 1] \notin {ch.slash, 33}

MAX_HISTORY == 20

Versions == {"v2", "v5"}

Roles == {"user", "assistant", "system"}

\* conv_clear() / conversation_clear()
conv_clear(conv) == <<>>

\* A conv_add that gives up the newest stored message at capacity.
conv_add_newest(conv, role, content) ==
    Append(IF Len(conv) >= MAX_HISTORY THEN SubSeq(conv, 1, Len(conv) - 1)
           ELSE conv,
           [role |-> role, content |-> content])

\* conv_add(role, content) of file_agent_v5.c (conversation_add of part_000)
conv_add(conv, role, content) ==
    Append(IF Len(conv) >= MAX_HISTORY THEN Tail(conv) ELSE conv,
           [role |-> role, content |-> content])

\* The loop of conversation_add (v2) that looks for the message to remove:
\* the first one whose role is not "system", the first one if there is none.
RemoveIdx(conv) ==
    IF \E i \in 1..Len(conv) : conv[i].role # "system"
    THEN CHOOSE i \in 1..Len(conv) :
            /\ conv[i].role # "system"
            /\ \A j \in 1..(i - 1) : conv[j].role = "system"
    ELSE 1

RemoveAt(conv, i) == SubSeq(conv, 1, i - 1) \o SubSeq(conv, i + 1, Len(conv))

\* conversation_add(role, content) of file_agent_v2.c
conversation_add(conv, role, content) ==
    Append(IF Len(conv) >= MAX_HISTORY THEN RemoveAt(conv, RemoveIdx(conv))
           ELSE conv,
           [role |-> role, content |-> content])

\* The client adds up to MaxAdds messages between two clears; the first
\* MaxFreeRoles of them can have any role, the later ones are the user's.
MaxAdds == 22
MaxFreeRoles == 3

InitChat ==
    /\ mem = <<>>
    /\ typed = 0
    /\ heap = EmptyHeap(0)
    /\ root = NULL
    /\ \E v \in Versions : res = [Idle EXCEPT !.ver = v]
    /\ global_error = NoError

Chatting == res.call \in {"none", "conv_add", "conv_clear"}

AddMessage ==
    /\ Chatting /\ Len(res.added) < MaxAdds
    /\ \E role \in (IF Len(res.added) < MaxFreeRoles THEN Roles ELSE {"user"}) :
          res' = [res EXCEPT
                    !.call = "conv_add",
                    !.conv = IF res.ver = "v2"
                             THEN conversation_add(@, role, Len(res.added) + 1)
                             ELSE conv_add(@, role, Len(res.added) + 1),
                    !.added = Append(@, [role |-> role,
                                         content |-> Len(res.added) + 1])]
    /\ UNCHANGED <<mem, typed, heap, root, global_error>>

ClearHistory ==
    /\ Chatting
    /\ res' = [res EXCEPT !.call = "conv_clear", !.conv = conv_clear(@),
                          !.added = <<>>]
    /\ UNCHANGED <<mem, typed, heap, root, global_error>>

NextChat ==
    \/ AddMessage
    \/ ClearHistory

SpecChat == InitChat /\ [][NextChat]_vars

\* The most recent min(n, MAX_HISTORY) of the n messages of s, in order.
MostRecent(s) == SubSeq(s, Max(1, Len(s) - MAX_HISTORY + 1), Len(s))

\* The messages of s that are in the set K, in order.
RECURSIVE Select(_, _)
Select(s, K) ==
    IF s = <<>> THEN <<>>
    ELSE (IF Head(s) \in K THEN <<Head(s)>> ELSE <<>>) \o Select(Tail(s), K)

SystemsAndRecent(s) ==
    LET all == {s[i] : i \in 1..Len(s)}
        systems == {m \in all : m.role = "system"}
        others == Select(s, all \ systems)
        room == MAX_HISTORY - Cardinality(systems)
        recent == {others[i] :
                      i \in Max(1, Len(others) - room + 1)..Len(others)}
    IN  Select(s, systems \cup recent)

C30SystemKept ==
    /\ res.call = "conv_add" /\ res.ver = "v2"
    /\ Len(res.added) = MAX_HISTORY + 1
    /\ res.added[1].role = "system" /\ res.added[2].role = "user"
    /\ res.conv[1] = res.added[1]
    /\ res.conv[2] = res.added[3]

(***************************************************************************)
(* The file agent: paths, confirmation and the commands of the model.      *)
(* "v5" stands for file_agent_v5.c and for the agent of part_000, whose    *)
(* file operations and command dispatch do the same; "v2" is               *)
(* file_agent_v2.c.  The sandbox holds plain files and no symbolic links.  *)
(***************************************************************************)
ALLOWED_DIR == Bytes("./sandbox")
MAX_PATH_LEN == 1024
InputSize == 2048
ResponseSize == 16

\* snprintf(out, sz, "%s/%s", a, b): the bytes stored (at most sz - 1) and
\* the length the whole text would have.
Snprintf(sz, a, b) ==
    [out |-> SubSeq(a \o <<ch.slash>> \o b, 1, Min(Len(a) + 1 + Len(b), sz - 1)),
     written |-> Len(a) + 1 + Len(b)]

\* strstr(rel, "..") != NULL
HasDotDot(rel) ==
    \E i \in 1..(Len(rel) - 1) : rel[i] = ch.dot /\ rel[i + 1] = ch.dot

\* The tests safe_path rejects a path by, in every version.
Rejected(rel) ==
    rel = <<>> \/ rel[1] = ch.slash \/ HasDotDot(rel)

\* safe_path(rel, out, sizeof(full)) of file_agent_v5.c and part_000
safe_path(rel) ==
    IF Rejected(rel) THEN [ok |-> FALSE, out |-> <<>>]
    ELSE [ok |-> TRUE, out |-> Snprintf(MAX_PATH_LEN, ALLOWED_DIR, rel).out]

\* safe_path of file_agent_v2.c, which also rejects a path whose full name
\* does not fit (realpath finds nothing outside a sandbox without links).
safe_path_v2(rel) ==
    IF Rejected(rel) THEN [ok |-> FALSE, out |-> <<>>]
    ELSE IF Snprintf(MAX_PATH_LEN, ALLOWED_DIR, rel).written >= MAX_PATH_LEN
    THEN [ok |-> FALSE, out |-> <<>>]
    ELSE [ok |-> TRUE, out |-> Snprintf(MAX_PATH_LEN, ALLOWED_DIR, rel).out]

SafePath(ver, rel) == IF ver = "v2" THEN safe_path_v2(rel) ELSE safe_path(rel)

\* fgets(buf, n, stdin): end of input, or the bytes up to and including the
\* first newline but no more than n - 1 of them, and what stays in stdin.
LineEnd(stream) ==
    IF \E i \in 1..Len(stream) : stream[i] = ch.lf
    THEN CHOOSE i \in 1..Len(stream) :
            stream[i] = ch.lf /\ \A j \in 1..(i - 1) : stream[j] # ch.lf
    ELSE Len(stream)

Fgets(stream, n) ==
    IF stream = <<>> THEN NoAnswer
    ELSE [eof |-> FALSE,
          text |-> SubSeq(stream, 1, Min(LineEnd(stream), n - 1)),
          rest |-> SubSeq(stream, Min(LineEnd(stream), n - 1) + 1, Len(stream))]

\* The test every confirmation prompt makes on what fgets gave it.
Confirmed(answer) ==
    ~answer.eof /\ answer.text[1] \in {Code("y"), Code("Y")}

\* The files after fopen(name, "w" or "a"), fwrite(content), fclose.
Written(fs, name, content, append) ==
    LET old == {f \in fs : f.name = name}
        before == IF append /\ old # {} THEN (CHOOSE f \in old : TRUE).data
                  ELSE <<>>
    IN  (fs \ old) \cup {[name |-> name, data |-> before \o content]}

Exists(fs, name) == \E f \in fs : f.name = name

Removed(fs, name) == {f \in fs : f.name # name}

\* What a command has done so far: the record of the process with the
\* report, the files and the accesses filled in.
Outcome(ag, report, fs, access) ==
    [ag EXCEPT !.report = report, !.fs = fs, !.access = @ \o access]

\* file_read / do_read: safe_path, then fopen(full, "r")
ReadFile(ver, ag) ==
    IF ~SafePath(ver, ag.cmd.path).ok THEN Outcome(ag, "Invalid path", ag.fs, <<>>)
    ELSE Outcome(ag, IF Exists(ag.fs, SafePath(ver, ag.cmd.path).out)
                     THEN "Read" ELSE "Cannot read",
                 ag.fs,
                 <<[op |-> "fopen", name |-> SafePath(ver, ag.cmd.path).out]>>)

\* file_write / the end of do_write: safe_path, the parent directories,
\* then fopen(full, "w" or "a")
WriteFile(ver, ag, append) ==
    IF ~SafePath(ver, ag.cmd.path).ok THEN Outcome(ag, "Invalid path", ag.fs, <<>>)
    ELSE Outcome(ag, IF append THEN "Appended" ELSE "Wrote",
                 Written(ag.fs, SafePath(ver, ag.cmd.path).out, ag.cmd.content,
                         append),
                 <<[op |-> "fopen", name |-> SafePath(ver, ag.cmd.path).out]>>)

\* file_delete / the end of do_delete: safe_path, then remove(full)
DeleteFile(ver, ag) ==
    IF ~SafePath(ver, ag.cmd.path).ok THEN Outcome(ag, "Invalid path", ag.fs, <<>>)
    ELSE Outcome(ag, IF Exists(ag.fs, SafePath(ver, ag.cmd.path).out)
                     THEN "Deleted" ELSE "Delete failed",
                 Removed(ag.fs, SafePath(ver, ag.cmd.path).out),
                 <<[op |-> "remove", name |-> SafePath(ver, ag.cmd.path).out]>>)

\* The process after the prompt has read its answer from stdin.
Asked(ag) ==
    [ag EXCEPT !.prompted = TRUE,
               !.answer = Fgets(ag.stdin, ResponseSize),
               !.cut = ag.midline,
               !.stdin = Fgets(ag.stdin, ResponseSize).rest]

Cancelled(ag, report) == Outcome(ag, report, ag.fs, <<>>)

\* run_cmd of file_agent_v5.c (run_command of part_000) for the command
\* ag.cmd
run_cmd(ag) ==
    IF ag.cmd.action = "read" THEN ReadFile("v5", ag)
    ELSE IF ag.cmd.action = "write"
    THEN IF ag.cmd.content = <<>> THEN Outcome(ag, "No content", ag.fs, <<>>)
         ELSE IF Confirmed(Asked(ag).answer)
         THEN WriteFile("v5", Asked(ag), FALSE)
         ELSE Cancelled(Asked(ag), "Cancelled")
    ELSE IF ag.cmd.action = "append" THEN WriteFile("v5", ag, TRUE)
    ELSE IF ag.cmd.action = "delete"
    THEN IF Confirmed(Asked(ag).answer) THEN DeleteFile("v5", Asked(ag))
         ELSE Cancelled(Asked(ag), "Cancelled")
    ELSE Outcome(ag, "Unknown", ag.fs, <<>>)

\* do_write(path, content, append, false) of file_agent_v2.c
do_write(ag, append) ==
    IF ~safe_path_v2(ag.cmd.path).ok THEN Outcome(ag, "Invalid path", ag.fs, <<>>)
    ELSE IF append THEN WriteFile("v2", ag, TRUE)
    ELSE IF Confirmed(Asked(ag).answer) THEN WriteFile("v2", Asked(ag), FALSE)
    ELSE Cancelled(Asked(ag), "Cancelled by user")

\* do_delete(path, false) of file_agent_v2.c
do_delete(ag) ==
    IF ~safe_path_v2(ag.cmd.path).ok THEN Outcome(ag, "Invalid path", ag.fs, <<>>)
    ELSE IF ~Exists(ag.fs, safe_path_v2(ag.cmd.path).out)
    THEN Outcome(ag, "File not found", ag.fs, <<>>)
    ELSE IF Confirmed(Asked(ag).answer) THEN DeleteFile("v2", Asked(ag))
    ELSE Cancelled(Asked(ag), "Cancelled by user")

\* execute_command of file_agent_v2.c for the command ag.cmd
execute_command(ag) ==
    IF ag.cmd.action = "read" THEN ReadFile("v2", ag)
    ELSE IF ag.cmd.action = "write" THEN do_write(ag, FALSE)
    ELSE IF ag.cmd.action = "append" THEN do_write(ag, TRUE)
    ELSE IF ag.cmd.action = "delete" THEN do_delete(ag)
    ELSE Outcome(ag, "Unknown", ag.fs, <<>>)

\* What the user types and what the model answers.  The long line has one
\* byte more than the agent's input buffer takes, and the long paths are
\* the longest whose full name fits MAX_PATH_LEN and the one after it.
Repeat(c, n) == [i \in 1..n |-> c]

Streams ==
    {Bytes("w") \o <<ch.lf>> \o a \o <<ch.lf>> :
        a \in {Bytes("y"), Bytes("Yes"), Bytes("n"), Bytes(" y"), <<>>}}
    \cup {Bytes("w") \o <<ch.lf>>,
          Bytes("w") \o <<ch.lf>> \o Bytes("n") \o <<ch.lf>>
              \o Bytes("w") \o <<ch.lf>> \o Bytes("y") \o <<ch.lf>>,
          Repeat(ch.a, InputSize - 1) \o Bytes("y") \o <<ch.lf>>}

LongPath(n) == Repeat(ch.a, n - Len(Bytes(".txt"))) \o Bytes(".txt")

AgentPaths ==
    {Bytes("a.txt"), Bytes("d/b.txt"), <<>>, Bytes("/a.txt"),
     Bytes("../a.txt"), Bytes("d/../../a.txt"),
     LongPath(MAX_PATH_LEN - Len(ALLOWED_DIR) - 2),
     LongPath(MAX_PATH_LEN - Len(ALLOWED_DIR) - 1)}

Commands ==
    [action : {"read", "write", "append", "delete"}, path : AgentPaths,
     content : {<<>>, Bytes("new")}]

FirstFiles ==
    {[name |-> ALLOWED_DIR \o <<ch.slash>> \o Bytes("a.txt"),
      data |-> Bytes("old")]}

InitAgent ==
    /\ mem = <<>>
    /\ typed = 0
    /\ heap = EmptyHeap(0)
    /\ root = NULL
    /\ \E v \in Versions, s \in Streams :
          res = [Idle EXCEPT !.ver = v, !.ag.stdin = s, !.ag.fs = FirstFiles]
    /\ global_error = NoError

\* The main loop reads the user's line: fgets(input, sizeof(input), stdin)
ReadInput ==
    /\ res.call \in {"none", "run_cmd"}
    /\ ~Fgets(res.ag.stdin, InputSize).eof
    /\ res' = [res EXCEPT
                 !.call = "input",
                 !.ag.stdin = Fgets(res.ag.stdin, InputSize).rest,
                 !.ag.midline =
                     LET t == Fgets(res.ag.stdin, InputSize).text
                     IN  t[Len(t)] # ch.lf]
    /\ UNCHANGED <<mem, typed, heap, root, global_error>>

\* The state after the command the model answered with was run.
Ran28(ag) ==
    /\ res' = [res EXCEPT !.call = "run_cmd",
                          !.ag = [ag EXCEPT !.midline =
                                     IF ag.prompted /\ ~ag.answer.eof
                                     THEN ag.answer.text[Len(ag.answer.text)] # ch.lf
                                     ELSE @]]
    /\ UNCHANGED <<mem, typed, heap, root, global_error>>

\* One turn of the conversation: the model answers with a command and the
\* agent runs it.
RunCommand ==
    /\ res.call = "input"
    /\ \E cmd \in Commands :
          Ran28(IF res.ver = "v2"
                THEN execute_command([res.ag EXCEPT !.cmd = cmd,
                                         !.prompted = FALSE, !.cut = FALSE,
                                         !.answer = NoAnswer, !.access = <<>>,
                                         !.report = ""])
                ELSE run_cmd([res.ag EXCEPT !.cmd = cmd,
                                 !.prompted = FALSE, !.cut = FALSE,
                                 !.answer = NoAnswer, !.access = <<>>,
                                 !.report = ""]))

NextAgent == ReadInput \/ RunCommand

SpecAgent == InitAgent /\ [][NextAgent]_vars

\* The command has handed a name to fopen for writing or to remove.
Modifies(ag) ==
    \/ \E i \in 1..Len(ag.access) : ag.access[i].op = "remove"
    \/ ag.cmd.action \in {"write", "append"} /\ ag.access # <<>>

\* C28: a write or delete command changes the file system only if the user
\* answered the confirmation prompt of that same command with a line that
\* starts with 'y' or 'Y'; after any other answer, or end of input, the file
\* system is as before and the cancellation is reported.  The answer to a
\* prompt is a line the prompt read from its first byte on.
C28NoChangeWithoutConsent ==
    (res.call = "run_cmd" /\ res.ag.cmd.action \in {"write", "delete"}) =>
        /\ Modifies(res.ag) =>
               res.ag.prompted /\ ~res.ag.cut /\ Confirmed(res.ag.answer)
        /\ (res.ag.prompted /\ ~Confirmed(res.ag.answer)) =>
               /\ ~Modifies(res.ag)
               /\ res.ag.report \in {"Cancelled", "Cancelled by user"}

\* What the code does guarantee: a write or delete command touches the
\* files only after its prompt read bytes that start with 'y' or 'Y', and a
\* prompt that read anything else leaves the files alone and reports it.
AfterAffirmativeRead ==
    (res.call = "run_cmd" /\ res.ag.cmd.action \in {"write", "delete"}) =>
        /\ Modifies(res.ag) => res.ag.prompted /\ Confirmed(res.ag.answer)
        /\ (res.ag.prompted /\ ~Confirmed(res.ag.answer)) =>
               /\ ~Modifies(res.ag)
               /\ res.ag.report \in {"Cancelled", "Cancelled by user"}

\* A command went through on bytes the user typed before the prompt.
ConsentFromInputLine ==
    res.call = "run_cmd" /\ Modifies(res.ag) /\ res.ag.cut

\* C29: every name handed to fopen or remove comes from a path that
\* safe_path accepted, which it does only for a path that is not empty,
\* does not start with '/' and holds no "..", and the name is ALLOWED_DIR,
\* "/" and that path; a rejected path leads to no file access.
C29SandboxConfinement ==
    res.call = "run_cmd" =>
        /\ \A i \in 1..Len(res.ag.access) :
               /\ ~Rejected(res.ag.cmd.path)
               /\ res.ag.access[i].name
                      = ALLOWED_DIR \o <<ch.slash>> \o res.ag.cmd.path
        /\ Rejected(res.ag.cmd.path) => res.ag.access = <<>>

\* What the code does guarantee: the names start with ALLOWED_DIR and "/",
\* hold no "..", and come from paths that pass the three tests.
InsideSandbox ==
    res.call = "run_cmd" =>
        /\ \A i \in 1..Len(res.ag.access) :
               /\ ~Rejected(res.ag.cmd.path)
               /\ SubSeq(res.ag.access[i].name, 1, Len(ALLOWED_DIR) + 1)
                      = ALLOWED_DIR \o <<ch.slash>>
               /\ ~HasDotDot(res.ag.access[i].name)
        /\ Rejected(res.ag.cmd.path) => res.ag.access = <<>>

\* A file was opened under a name that is not the one the path asks for.
TruncatedName ==
    /\ res.call = "run_cmd"
    /\ \E i \in 1..Len(res.ag.access) :
          res.ag.access[i].name # ALLOWED_DIR \o <<ch.slash>> \o res.ag.cmd.path

====
